---- MODULE Spec2Model ----
(***************************************************************************)
(* A model of the bplist00 decoder (crate bplist, src/de).                 *)
(*                                                                         *)
(* The input is a sequence of bytes.  A decode is a run of the state       *)
(* machine: parse_metadata (length check, header, trailer, offset table),  *)
(* the root dispatch of Deserializer::deserialize_any, and then the        *)
(* recursive ObjectDeserializer::deserialize_any, whose call stack is the  *)
(* variable frames.                                                        *)
(*                                                                         *)
(* A usize / u64 is kept at its full width of 64 bits: it is the sequence  *)
(* of its 8 big-endian bytes (type U64), and arithmetic on it is digit     *)
(* arithmetic, so that wrap-around is the wrap-around of the machine word. *)
(* The target is a 64-bit platform (usize::try_from(u64) never fails).     *)
(***************************************************************************)
EXTENDS Integers, Sequences, FiniteSets, TLC

(***************************************************************************)
(* Bounds of the model.                                                    *)
(***************************************************************************)
\* number of objects of a generated object-graph document
MaxObjects == 3
\* largest element count of a generated array
MaxCount == 2

(***************************************************************************)
(* 64-bit words (usize, u64) as 8 big-endian bytes.                        *)
(***************************************************************************)
Byte == 0..255

Zeros(n) == [i \in 1..n |-> 0]

\* the word holding the small natural k (k < 2^24)
U64(k) == Zeros(5) \o <<(k \div 65536) % 256, (k \div 256) % 256, k % 256>>

U64Max == <<255, 255, 255, 255, 255, 255, 255, 255>>

\* a <  b for two big-endian digit sequences of the same length
DigitsLt(a, b) ==
    \E i \in 1..Len(a) : a[i] < b[i] /\ \A j \in 1..(i - 1) : a[j] = b[j]

DigitsLe(a, b) == a = b \/ DigitsLt(a, b)

\* a word known to be small (< 2^24), as a natural number
IsSmall(d) == \A i \in 1..5 : d[i] = 0
Nat24(d) == d[6] * 65536 + d[7] * 256 + d[8]

\* the carry into digit i of a + b: some lower digit overflows and every
\* digit between it and i passes a carry on
CarryInto(a, b, i) ==
    \E j \in (i + 1)..Len(a) :
        /\ a[j] + b[j] > 255
        /\ \A l \in (i + 1)..(j - 1) : a[l] + b[l] = 255

\* digit 8 - k of a word has the weight 256^k; Column(a, b, k) is the sum of
\* the digit products of weight 256^k in a * b
Term(a, b, i, k) == IF 16 - k - i \in 1..8 THEN a[i] * b[16 - k - i] ELSE 0

Column(a, b, k) ==
    Term(a, b, 1, k) + Term(a, b, 2, k) + Term(a, b, 3, k) + Term(a, b, 4, k)
      + Term(a, b, 5, k) + Term(a, b, 6, k) + Term(a, b, 7, k) + Term(a, b, 8, k)

RECURSIVE ColumnCarries(_, _, _)
\* what the columns below carry into each of the columns 0..k
ColumnCarries(a, b, k) ==
    IF k = 0 THEN <<0>>
    ELSE LET below == ColumnCarries(a, b, k - 1)
         IN  Append(below, (Column(a, b, k - 1) + below[k]) \div 256)

\* the 16 digits of the mathematical product a * b, the digit of weight
\* 256^k at k + 1
ProductDigits(a, b) ==
    LET carries == ColumnCarries(a, b, 15)
    IN  [n \in 1..16 |-> (Column(a, b, n - 1) + carries[n]) % 256]

(***************************************************************************)
(* Machine arithmetic on usize (src/de/mod.rs:254, 257, 262).  A result is *)
(* the wrapped value and whether the mathematical result left the word:    *)
(* with overflow checks compiled in (a debug build) the operation panics,  *)
(* without them (a release build) it wraps.                                *)
(***************************************************************************)
usize_mul(a, b) ==
    LET digits == ProductDigits(a, b)
    IN  [val      |-> [i \in 1..8 |-> digits[9 - i]],
         overflow |-> \E n \in 9..16 : digits[n] # 0]

usize_add(a, b) ==
    [val      |-> [i \in 1..8 |-> (a[i] + b[i] + IF CarryInto(a, b, i) THEN 1 ELSE 0) % 256],
     overflow |-> CarryInto(a, b, 0)]

(***************************************************************************)
(* nom parser results: st is "ok" (rest = the remaining input, val = the   *)
(* value), "err" (a parse error) or "panic" (a failed assertion).          *)
(***************************************************************************)
POk(rest, val) == [st |-> "ok", rest |-> rest, val |-> val]
PErr == [st |-> "err", rest |-> <<>>, val |-> <<>>]
PPanic == [st |-> "panic", rest |-> <<>>, val |-> <<>>]

Drop(input, n) == SubSeq(input, n + 1, Len(input))
Take(input, n) == SubSeq(input, 1, n)

(***************************************************************************)
(* src/document.rs: the constants of the envelope.                         *)
(***************************************************************************)
HEADER_SIZE == 8
HEADER_MAGIC_NUMBER == <<98, 112, 108, 105, 115, 116>>
HEADER_VERSION_00 == <<48, 48>>
TRAILER_SIZE == 32
TRAILER_PREAMBLE_UNUSED_SIZE == 5

(***************************************************************************)
(* src/de/parser/utils.rs                                                  *)
(***************************************************************************)
\* bytes.iter().fold(0u64, |acc, x| (acc << 8) + x) for at most 8 bytes: each
\* shift leaves a zero low byte, so no addition carries and no byte is
\* shifted out; the result is the bytes, zero-extended
fold_be(bytes) == Zeros(8 - Len(bytes)) \o bytes

be_u64_n(n, input) ==
    IF ~(n >= 1 /\ n <= 8) THEN PPanic
    ELSE IF Len(input) < n THEN PErr
    ELSE POk(Drop(input, n), fold_be(Take(input, n)))

\* map_res(be_u64_n(n), usize::try_from): on the 64-bit target every u64 is a usize
be_usize_n(n, input) == be_u64_n(n, input)

RECURSIVE many_m_n_be_usize(_, _, _, _, _)
\* many_m_n(n, n, be_usize_n(size)): exactly n values, each of size bytes.
\* n is a word; count (the values read so far) never exceeds Len(input).
many_m_n_be_usize(n, size, input, count, res) ==
    IF n = U64(0) THEN POk(input, <<>>)
    ELSE LET r == be_usize_n(size, input)
         IN  IF r.st = "panic" THEN PPanic
             ELSE IF r.st = "err" THEN PErr
             ELSE IF r.rest = input THEN PErr
             ELSE IF U64(count + 1) = n THEN POk(r.rest, Append(res, r.val))
             ELSE many_m_n_be_usize(n, size, r.rest, count + 1, Append(res, r.val))

(***************************************************************************)
(* src/de/parser/document.rs                                               *)
(***************************************************************************)
\* tuple((tag(HEADER_MAGIC_NUMBER), be_u8, be_u8))
header(input) ==
    IF Len(input) < 6 \/ Take(input, 6) # HEADER_MAGIC_NUMBER THEN PErr
    ELSE IF Len(input) < 8 THEN PErr
    ELSE POk(Drop(input, 8), [version |-> <<input[7], input[8]>>])

offset_table(entries, entry_size, input) ==
    many_m_n_be_usize(entries, entry_size, input, 0, <<>>)

trailer(input) ==
    IF Len(input) < TRAILER_PREAMBLE_UNUSED_SIZE + 1 THEN PErr
    ELSE
      LET i1 == Drop(input, TRAILER_PREAMBLE_UNUSED_SIZE)
          sort_version == i1[1]
          r1 == be_usize_n(1, Drop(i1, 1))
          r2 == be_usize_n(1, r1.rest)
          r3 == be_usize_n(8, r2.rest)
          r4 == be_usize_n(8, r3.rest)
          r5 == be_usize_n(8, r4.rest)
      IN  IF r1.st # "ok" THEN PErr
          ELSE IF r2.st # "ok" THEN PErr
          ELSE IF r3.st # "ok" THEN PErr
          ELSE IF r4.st # "ok" THEN PErr
          ELSE IF r5.st # "ok" THEN PErr
          ELSE POk(r5.rest,
                   [sort_version            |-> sort_version,
                    offset_table_entry_size |-> r1.val,
                    object_reference_size   |-> r2.val,
                    number_of_objects       |-> r3.val,
                    root_object             |-> r4.val,
                    offset_table_offset     |-> r5.val])


(***************************************************************************)
(* src/document.rs: ObjectFormat and the layout of the marker byte.        *)
(***************************************************************************)
ObjectFormat ==
    <<"Boolean", "Fill", "UInt8", "UInt16", "UInt32", "SInt64", "Float32",
      "Float64", "Date", "Data", "AsciiString", "Utf16String", "Uid", "Array",
      "Dictionary">>

RECURSIVE BitAnd(_, _)
BitAnd(a, b) ==
    IF a = 0 \/ b = 0 THEN 0
    ELSE (a % 2) * (b % 2) + 2 * BitAnd(a \div 2, b \div 2)

tag_mask(format) ==
    CASE format = "Boolean" -> 254
      [] format \in {"Fill", "UInt8", "UInt16", "UInt32", "SInt64", "Float32",
                     "Float64", "Date"} -> 255
      [] OTHER -> 240

\* a variant of value_mask that keeps the low four bits for every format
value_mask_low_bits(format) == 15

value_mask(format) ==
    CASE format = "Boolean" -> 1
      [] format \in {"Fill", "UInt8", "UInt16", "UInt32", "SInt64", "Float32",
                     "Float64", "Date"} -> 0
      [] OTHER -> 15

tag_bits(format) ==
    CASE format = "Boolean"     -> 8
      [] format = "Fill"        -> 15
      [] format = "UInt8"       -> 16
      [] format = "UInt16"      -> 17
      [] format = "UInt32"      -> 18
      [] format = "SInt64"      -> 19
      [] format = "Float32"     -> 34
      [] format = "Float64"     -> 35
      [] format = "Date"        -> 51
      [] format = "Data"        -> 64
      [] format = "AsciiString" -> 80
      [] format = "Utf16String" -> 96
      [] format = "Uid"         -> 128
      [] format = "Array"       -> 160
      [] format = "Dictionary"  -> 208

(***************************************************************************)
(* src/de/parser/object.rs                                                 *)
(***************************************************************************)
\* the value of a successful marker parse is <<format, value bits>>
marker(format, input) ==
    IF Len(input) < 1 THEN PErr
    ELSE IF BitAnd(input[1], tag_mask(format)) # tag_bits(format) THEN PErr
    ELSE POk(Drop(input, 1), <<format, BitAnd(input[1], value_mask(format))>>)

\* alt((a, b)): the first parser's result unless it is an error
alt(a, b) == IF a.st = "err" THEN b ELSE a

\* alt((marker(Boolean), .., marker(Dictionary))): the result of the first
\* of the marker parsers, in the order of ObjectFormat, that succeeds
any_marker(input) ==
    LET matching == { i \in 1..Len(ObjectFormat) : marker(ObjectFormat[i], input).st = "ok" }
        first == CHOOSE i \in matching : \A j \in matching : i <= j
    IN  IF matching = {} THEN PErr ELSE marker(ObjectFormat[first], input)

\* take(n) after a marker m: the value is the n bytes
payload(m, n) ==
    IF m.st # "ok" THEN PErr
    ELSE IF Len(m.rest) < n THEN PErr
    ELSE POk(Drop(m.rest, n), Take(m.rest, n))

\* tuple((marker(format), <n big-endian bytes>))
fixed_payload(format, n, input) == payload(marker(format, input), n)

\* map(marker(Boolean), |(_, value)| value == 1)
boolean_value(m) == IF m.st # "ok" THEN PErr ELSE POk(m.rest, m.val[2] = 1)
boolean(input) == boolean_value(marker("Boolean", input))

fill_value(m) == IF m.st # "ok" THEN PErr ELSE POk(m.rest, <<>>)
fill(input) == fill_value(marker("Fill", input))

uint8(input) == fixed_payload("UInt8", 1, input)
uint16(input) == fixed_payload("UInt16", 2, input)
uint32(input) == fixed_payload("UInt32", 4, input)
sint64(input) == fixed_payload("SInt64", 8, input)
float32(input) == fixed_payload("Float32", 4, input)
float64(input) == fixed_payload("Float64", 8, input)
date(input) == fixed_payload("Date", 8, input)

\* value as u64: the bytes of an unsigned value zero-extended; the 8 bytes of
\* an i64 reinterpreted
as_u64(bytes) == Zeros(8 - Len(bytes)) \o bytes

\* map(alt((uint8, uint16, uint32, sint64)), |value| value as usize)
as_count(r) == IF r.st # "ok" THEN PErr ELSE POk(r.rest, as_u64(r.val))

\* a variant of payload_count that takes the value bits 15 as the count 15
payload_count_inline(encoded_value, input) == POk(input, U64(encoded_value))

\* the value of a successful parse is the count, a word
payload_count(encoded_value, input) ==
    IF BitAnd(encoded_value, 240) # 0 THEN PPanic
    ELSE IF encoded_value = 15
    THEN as_count(alt(uint8(input), alt(uint16(input), alt(uint32(input), sint64(input)))))
    ELSE POk(input, U64(encoded_value))

\* flat_map(marker(format), payload_count): the count that follows the marker m
count_after(m) == IF m.st # "ok" THEN PErr ELSE payload_count(m.val[2], m.rest)

\* take(count) for a count that is a word
take_word(count, input) ==
    IF ~IsSmall(count) \/ Nat24(count) > Len(input) THEN PErr
    ELSE POk(Drop(input, Nat24(count)), Take(input, Nat24(count)))

\* take(count) for the result c of the count
take_count(c) == IF c.st # "ok" THEN c ELSE take_word(c.val, c.rest)

data(input) == take_count(count_after(marker("Data", input)))

\* map_res(.., str::from_utf8) with the check is_ascii: t is the taken bytes
\* a variant of ascii_only that looks at the first byte only
ascii_only_first_byte(t) ==
    IF t.st # "ok" THEN t
    ELSE IF Len(t.val) > 0 /\ t.val[1] > 127 THEN PErr
    ELSE t

ascii_only(t) ==
    IF t.st # "ok" THEN t
    ELSE IF \E i \in 1..Len(t.val) : t.val[i] > 127 THEN PErr
    ELSE t

\* the value is the string as the sequence of its code points
ascii_string(input) == ascii_only(take_count(count_after(marker("AsciiString", input))))

RECURSIVE from_utf16(_)
\* String::from_utf16: <<TRUE, code points>>, or <<FALSE, <<>>>> on an unpaired surrogate
from_utf16(units) ==
    IF units = <<>> THEN <<TRUE, <<>>>>
    ELSE LET u == Head(units)
         IN  IF u < 55296 \/ u > 57343
             THEN LET r == from_utf16(Tail(units))
                  IN  IF r[1] THEN <<TRUE, <<u>> \o r[2]>> ELSE r
             ELSE IF u >= 56320 \/ Len(units) < 2 THEN <<FALSE, <<>>>>
             ELSE LET l == units[2]
                  IN  IF l < 56320 \/ l > 57343 THEN <<FALSE, <<>>>>
                      ELSE LET r == from_utf16(Tail(Tail(units)))
                           IN  IF r[1]
                               THEN <<TRUE, <<65536 + (u - 55296) * 1024 + (l - 56320)>> \o r[2]>>
                               ELSE r

RECURSIVE many_m_n_be_u16(_, _, _, _)
many_m_n_be_u16(n, input, count, res) ==
    IF n = U64(0) THEN POk(input, <<>>)
    ELSE IF Len(input) < 2 THEN PErr
    ELSE LET u == input[1] * 256 + input[2]
         IN  IF U64(count + 1) = n THEN POk(Drop(input, 2), Append(res, u))
             ELSE many_m_n_be_u16(n, Drop(input, 2), count + 1, Append(res, u))

\* many_m_n(count, count, be_u16) for the result c of the count
units_of(c) == IF c.st # "ok" THEN c ELSE many_m_n_be_u16(c.val, c.rest, 0, <<>>)

\* map_res(.., String::from_utf16): t is the code units
utf16_decoded(t) ==
    IF t.st # "ok" THEN t
    ELSE LET d == from_utf16(t.val)
         IN  IF ~d[1] THEN PErr ELSE POk(t.rest, d[2])

utf16_string(input) == utf16_decoded(units_of(count_after(marker("Utf16String", input))))

uid_bytes(m) ==
    IF m.st # "ok" THEN PErr
    ELSE IF Len(m.rest) < m.val[2] + 1 THEN PErr
    ELSE POk(Drop(m.rest, m.val[2] + 1), Take(m.rest, m.val[2] + 1))

uid(input) == uid_bytes(marker("Uid", input))

\* many_m_n(count, count, be_usize_n(object_reference_size)) for the result c
\* of the count
\* a variant of references that asks for at least one reference
references_at_least_one(c, object_reference_size) ==
    IF c.st # "ok" THEN c
    ELSE IF c.val = U64(0) THEN PErr
    ELSE many_m_n_be_usize(c.val, object_reference_size, c.rest, 0, <<>>)

references(c, object_reference_size) ==
    IF c.st # "ok" THEN c
    ELSE many_m_n_be_usize(c.val, object_reference_size, c.rest, 0, <<>>)

\* the value is the list of the references, each a word
array(object_reference_size, input) ==
    IF ~(object_reference_size <= 8) THEN PPanic
    ELSE references(count_after(marker("Array", input)), object_reference_size)

\* a variant of zip_values for keys and values that alternate on the wire
zip_values_alternating(c, keys, object_reference_size) ==
    IF keys.st # "ok" THEN keys
    ELSE LET values == many_m_n_be_usize(c.val, object_reference_size, keys.rest, 0, <<>>)
             all == keys.val \o values.val
         IN  IF values.st # "ok" THEN values
             ELSE POk(values.rest,
                      [i \in 1..Len(keys.val) |-> <<all[2 * i - 1], all[2 * i]>>])

\* the values that follow the keys, zipped with them
zip_values(c, keys, object_reference_size) ==
    IF keys.st # "ok" THEN keys
    ELSE LET values == many_m_n_be_usize(c.val, object_reference_size, keys.rest, 0, <<>>)
         IN  IF values.st # "ok" THEN values
             ELSE POk(values.rest,
                      [i \in 1..Len(keys.val) |-> <<keys.val[i], values.val[i]>>])

key_values(c, object_reference_size) ==
    zip_values(c, references(c, object_reference_size), object_reference_size)

\* the value is the list of the pairs <<key reference, value reference>>
dictionary(object_reference_size, input) ==
    IF ~(object_reference_size <= 8) THEN PPanic
    ELSE key_values(count_after(marker("Dictionary", input)), object_reference_size)

(***************************************************************************)
(* The state of one decode, from_bytes::<T>(input).                        *)
(***************************************************************************)
VARIABLES
    input,            \* the document: a sequence of bytes
    overflow_checks,  \* the build: TRUE when arithmetic overflow panics
    materializer,     \* T, the type decoded into: "VecU8", "Object" or "Point"
    earlier,          \* <<>> or what an earlier decode of input by the caller gave
    pc,               \* the position of the decode
    trl,              \* <<>> or <<the parsed Trailer>>
    metadata,         \* <<>> or <<the Metadata>>
    next_object,      \* ObjectDeserializer::next_object
    collection_stack, \* ObjectDeserializer::collection_stack, a set of words
    frames,           \* the collections whose visitor is running, outermost first
    ret,              \* the value or error the last deserialize_any returned
    callbacks,        \* the visitor callbacks fired so far: <<method, object>>
    result            \* <<>>, <<"Ok", value>>, <<"Err", error>> or <<"Panic", message>>

envelope_vars == <<input, overflow_checks, materializer, earlier, trl, metadata>>
walker_vars == <<next_object, collection_stack, frames, ret, callbacks>>
vars == <<input, overflow_checks, materializer, earlier, pc, trl, metadata, next_object,
          collection_stack, frames, ret, callbacks, result>>

Ok(v) == <<"Ok", v>>
Err(e) == <<"Err", e>>
Panic(m) == <<"Panic", m>>
IsErr(e) == Len(result) = 2 /\ result[1] = "Err" /\ result[2] = e
IsPanic == Len(result) = 2 /\ result[1] = "Panic"
IsOk == Len(result) = 2 /\ result[1] = "Ok"

(***************************************************************************)
(* Deserializer::parse_metadata, src/de/mod.rs:229-276.                    *)
(***************************************************************************)
\* a variant of too_short that forgets the two bytes of the smallest object table
too_short_without_objects(len) == len < HEADER_SIZE + TRAILER_SIZE

\* src/de/mod.rs:230
too_short(len) == len < HEADER_SIZE + 2 + TRAILER_SIZE

\* a variant of header_outcome that accepts every version
header_outcome_any_version(bytes) ==
    IF header(Take(bytes, HEADER_SIZE)).st # "ok" THEN "MissingOrInvalidHeader" ELSE "ok"

\* src/de/mod.rs:235-241
header_outcome(bytes) ==
    LET h == header(Take(bytes, HEADER_SIZE))
    IN  IF h.st # "ok" THEN "MissingOrInvalidHeader"
        ELSE IF h.val.version # HEADER_VERSION_00 THEN "UnsupportedVersion"
        ELSE "ok"

\* a variant of invalid_root that lets root_object = number_of_objects pass
invalid_root_above(t) == DigitsLt(t.number_of_objects, t.root_object)

\* src/de/mod.rs:248
invalid_root(t) == ~DigitsLt(t.root_object, t.number_of_objects)

\* a variant of new_metadata whose range of the object table starts at 0
new_metadata_from_zero(t, table) ==
    [offset_table          |-> table,
     object_reference_size |-> t.object_reference_size,
     root_object           |-> t.root_object,
     object_table_range    |-> <<U64(0), t.offset_table_offset>>]

\* src/de/mod.rs:270-275: the Metadata for the trailer t and the parsed table;
\* object_table_range is the half-open range <<start, end>>
new_metadata(t, table) ==
    [offset_table          |-> table,
     object_reference_size |-> t.object_reference_size,
     root_object           |-> t.root_object,
     object_table_range    |-> <<U64(HEADER_SIZE), t.offset_table_offset>>]

\* src/de/mod.rs:253-275: the outcome of the rest of parse_metadata for the
\* trailer t: <<"Panic", m>>, <<"Err", e>> or <<"Ok", Metadata>>
locate_offset_table(bytes, t, checks) ==
    LET offset_table_start == t.offset_table_offset
        mul == usize_mul(t.number_of_objects, t.offset_table_entry_size)
        offset_table_length == mul.val
        sum == usize_add(offset_table_start, offset_table_length)
        offset_table_end == sum.val
        limit == U64(Len(bytes) - TRAILER_SIZE)
    IN  IF checks /\ mul.overflow THEN Panic("attempt to multiply with overflow")
        ELSE IF checks /\ sum.overflow THEN Panic("attempt to add with overflow")
        ELSE IF DigitsLt(limit, offset_table_end) THEN Err("MissingOrInvalidOffsetTable")
        \* &self.input[offset_table_start .. offset_table_end]
        ELSE IF DigitsLt(offset_table_end, offset_table_start)
        THEN Panic("slice index starts after its end")
        ELSE
          LET slice == SubSeq(bytes, Nat24(offset_table_start) + 1, Nat24(offset_table_end))
              r == offset_table(t.number_of_objects, Nat24(t.offset_table_entry_size), slice)
          IN  IF r.st = "panic" THEN Panic("number must be between 1 and 8 bytes, inclusive")
              ELSE IF r.st = "err" THEN Err("MissingOrInvalidOffsetTable")
              ELSE Ok(new_metadata(t, r.val))

\* src/de/mod.rs:229-276: res is the Result<Metadata> (or the panic), and
\* trailer is <<>> while the trailer has not been parsed
parse_metadata(bytes, checks) ==
    IF too_short(Len(bytes)) THEN [res |-> Err("Eof"), trailer |-> <<>>]
    ELSE IF header_outcome(bytes) # "ok"
    THEN [res |-> Err(header_outcome(bytes)), trailer |-> <<>>]
    ELSE LET parsed == trailer(Drop(bytes, Len(bytes) - TRAILER_SIZE))
         IN  IF parsed.st # "ok"
             THEN [res |-> Err("MissingOrInvalidTrailer"), trailer |-> <<>>]
             ELSE IF invalid_root(parsed.val)
             THEN [res |-> Err("InvalidRootObject"), trailer |-> <<parsed.val>>]
             ELSE [res |-> locate_offset_table(bytes, parsed.val, checks),
                   trailer |-> <<parsed.val>>]

ParseMetadata ==
    /\ pc = "parse_metadata"
    /\ \E m \in {parse_metadata(input, overflow_checks)} :
           /\ trl' = m.trailer
           /\ IF m.res[1] = "Ok"
              THEN pc' = "root" /\ metadata' = <<m.res[2]>> /\ UNCHANGED result
              ELSE pc' = "done" /\ result' = m.res /\ UNCHANGED metadata
    /\ UNCHANGED <<input, overflow_checks, materializer, earlier>>
    /\ UNCHANGED walker_vars

(***************************************************************************)
(* ObjectTable, src/de/mod.rs:47-194.  md is the Metadata.                 *)
(***************************************************************************)
offset_of(md, object) ==
    IF ~DigitsLt(object, U64(Len(md.offset_table)))
    THEN Err("InvalidObjectReference")
    ELSE Ok(md.offset_table[Nat24(object) + 1])

\* a variant of range_contains for a range that includes its end
range_contains_end(range, x) == DigitsLe(range[1], x) /\ DigitsLe(x, range[2])

\* Range::contains
range_contains(range, x) == DigitsLe(range[1], x) /\ DigitsLt(x, range[2])

\* a variant of data_for whose slice ends where the object table ends
data_for_within_table(bytes, md, object) ==
    LET o == offset_of(md, object)
    IN  IF o[1] = "Err" THEN o
        ELSE IF ~range_contains(md.object_table_range, o[2])
        THEN Err("InvalidOffsetToObject")
        ELSE Ok(SubSeq(bytes, Nat24(o[2]) + 1, Nat24(md.object_table_range[2])))

data_for(bytes, md, object) ==
    LET o == offset_of(md, object)
    IN  IF o[1] = "Err" THEN o
        ELSE IF ~range_contains(md.object_table_range, o[2])
        THEN Err("InvalidOffsetToObject")
        ELSE Ok(Drop(bytes, Nat24(o[2])))

\* .map(|(_, (format, _))| format).map_err(|_| InvalidOrUnsupportedObjectFormat)
\* for the result m of any_marker
classified(m) ==
    IF m.st = "ok" THEN Ok(m.val[1]) ELSE Err("InvalidOrUnsupportedObjectFormat")

kind_of(bytes, md, object) ==
    LET d == data_for(bytes, md, object)
    IN  IF d[1] = "Err" THEN d ELSE classified(any_marker(d[2]))

\* the $expected_error of each define_parser!, and of parse_array and
\* parse_dictionary
expected_error(format) ==
    CASE format = "Boolean"     -> "ExpectedBool"
      [] format = "Fill"        -> "ExpectedFill"
      [] format = "UInt8"       -> "ExpectedUInt8"
      [] format = "UInt16"      -> "ExpectedUInt16"
      [] format = "UInt32"      -> "ExpectedUInt32"
      [] format = "SInt64"      -> "ExpectedSInt64"
      [] format = "Float32"     -> "ExpectedFloat32"
      [] format = "Float64"     -> "ExpectedFloat64"
      [] format = "Date"        -> "ExpectedDate"
      [] format = "Data"        -> "ExpectedData"
      [] format = "AsciiString" -> "ExpectedAsciiString"
      [] format = "Utf16String" -> "ExpectedAsciiString"
      [] format = "Uid"         -> "ExpectedUid"
      [] format = "Array"       -> "ExpectedArray"
      [] format = "Dictionary"  -> "ExpectedDictionary"

\* the parser that parse_<format> runs on the object's data
parser_of(format, md, d) ==
    CASE format = "Boolean"     -> boolean(d)
      [] format = "Fill"        -> fill(d)
      [] format = "UInt8"       -> uint8(d)
      [] format = "UInt16"      -> uint16(d)
      [] format = "UInt32"      -> uint32(d)
      [] format = "SInt64"      -> sint64(d)
      [] format = "Float32"     -> float32(d)
      [] format = "Float64"     -> float64(d)
      [] format = "Date"        -> date(d)
      [] format = "Data"        -> data(d)
      [] format = "AsciiString" -> ascii_string(d)
      [] format = "Utf16String" -> utf16_string(d)
      [] format = "Uid"         -> uid(d)
      [] format = "Array"       -> array(Nat24(md.object_reference_size), d)
      [] format = "Dictionary"  -> dictionary(Nat24(md.object_reference_size), d)

\* .map(|(_, value)| value).map_err(|_| $expected_error)
map_err(format, r) ==
    IF r.st = "ok" THEN Ok(r.val)
    ELSE IF r.st = "panic" THEN Panic("assertion failed")
    ELSE Err(expected_error(format))

\* parse_boolean .. parse_uid, parse_array, parse_dictionary
parse(format, bytes, md, object) ==
    LET found == data_for(bytes, md, object)
    IN  IF found[1] = "Err" THEN found
        ELSE map_err(format, parser_of(format, md, found[2]))

(***************************************************************************)
(* ObjectDeserializer, src/de/mod.rs:339-377.                              *)
(***************************************************************************)
\* a variant of enter_collection that reports the re-entry as another error
enter_collection_other_error(stack, object) ==
    IF object \in stack THEN [stack |-> stack, res |-> Err("InvalidObjectReference")]
    ELSE [stack |-> stack \cup {object}, res |-> Ok(<<>>)]

\* BTreeSet::insert: FALSE when the value was present
enter_collection(stack, object) ==
    IF object \in stack THEN [stack |-> stack, res |-> Err("CycleDetected")]
    ELSE [stack |-> stack \cup {object}, res |-> Ok(<<>>)]

\* the last element of the ordered set: iter().next_back()
next_back(stack) == CHOOSE x \in stack : \A y \in stack : DigitsLe(y, x)

\* a variant of exit_collection that removes the first element of the
\* ordered set
exit_collection_first(stack) ==
    IF stack = {} THEN [stack |-> stack, panic |-> TRUE]
    ELSE [stack |-> stack \ {CHOOSE x \in stack : \A y \in stack : DigitsLe(x, y)},
          panic |-> FALSE]

\* a variant of exit_collection that empties the set
exit_collection_clearing(stack) ==
    IF stack = {} THEN [stack |-> stack, panic |-> TRUE]
    ELSE [stack |-> {}, panic |-> FALSE]

exit_collection(stack) ==
    IF stack = {} THEN [stack |-> stack, panic |-> TRUE]
    ELSE [stack |-> stack \ {next_back(stack)}, panic |-> FALSE]

(***************************************************************************)
(* The visitors.  "Object" is ObjectVisitor (src/object/de.rs); "VecU8" and *)
(* "U8" are the visitors of Vec<u8> and of its elements (src/tests);       *)
(* "DateFromF64" and "UidFromU64" are the visitors ObjectVisitor::visit_map *)
(* asks for the value of a magic key.                                      *)
(***************************************************************************)
DATE_STRUCT_FIELD ==
    <<36, 95, 95, 98, 112, 108, 105, 115, 116, 95, 112, 114, 105, 118, 97, 116,
      101, 95, 68, 97, 116, 101, 95, 97, 98, 115, 111, 108, 117, 116, 101, 95,
      116, 105, 109, 101>>

UID_STRUCT_FIELD ==
    <<36, 95, 95, 98, 112, 108, 105, 115, 116, 95, 112, 114, 105, 118, 97, 116,
      101, 95, 85, 105, 100, 95, 100, 97, 116, 97>>

\* the visitor method deserialize_any calls for an object of the format
callback_of(format) ==
    CASE format = "Boolean"     -> "visit_bool"
      [] format = "Fill"        -> "visit_unit"
      [] format = "UInt8"       -> "visit_u8"
      [] format = "UInt16"      -> "visit_u16"
      [] format = "UInt32"      -> "visit_u32"
      [] format = "SInt64"      -> "visit_i64"
      [] format = "Float32"     -> "visit_f32"
      [] format = "Float64"     -> "visit_f64"
      [] format = "Date"        -> "visit_map"
      [] format = "Data"        -> "visit_bytes"
      [] format = "AsciiString" -> "visit_str"
      [] format = "Utf16String" -> "visit_string"
      [] format = "Uid"         -> "visit_map"
      [] format = "Array"       -> "visit_seq"
      [] format = "Dictionary"  -> "visit_map"

InvalidType == Err("Message: invalid type")

\* a value of 1, 2, 4 or 8 bytes that is a u8
fits_u8(v) == \A i \in 1..(Len(v) - 1) : v[i] = 0

\* ObjectVisitor on an object that is no collection; v is the parsed value
object_visit(format, v) ==
    CASE format = "Boolean" -> Ok(<<"Boolean", v>>)
      [] format \in {"UInt8", "UInt16", "UInt32"} -> Ok(<<"Integer", as_u64(v)>>)
      [] format = "SInt64" -> Ok(<<"Integer", v>>)
      [] format = "Float32" -> Ok(<<"Real", [width |-> 32, bits |-> v]>>)
      [] format = "Float64" -> Ok(<<"Real", [width |-> 64, bits |-> v]>>)
      [] format = "Data" -> Ok(<<"Data", v>>)
      [] format \in {"AsciiString", "Utf16String"} -> Ok(<<"String", v>>)
      [] format = "Fill" -> InvalidType
      \* visit_map(DateDeserializer): the key is date::STRUCT_FIELD
      [] format = "Date" -> Ok(<<"Date", v>>)
      \* visit_map(UidDeserializer): the value is offered as a sequence of u8
      [] format = "Uid" -> InvalidType

\* the visitor of u8
u8_visit(format, v) ==
    IF format \in {"UInt8", "UInt16", "UInt32", "SInt64"} /\ fits_u8(v)
    THEN Ok(<<"u8", v[Len(v)]>>)
    ELSE InvalidType

date_from_f64_visit(format, v) ==
    CASE format = "Float32" -> Ok(<<"DateFromF64", [width |-> 32, bits |-> v]>>)
      [] format = "Float64" -> Ok(<<"DateFromF64", [width |-> 64, bits |-> v]>>)
      [] OTHER -> InvalidType

uid_from_u64_visit(format, v) ==
    IF format \in {"UInt8", "UInt16", "UInt32"} THEN Ok(<<"UidFromU64", as_u64(v)>>)
    ELSE InvalidType

\* the visitor of u64: the unsigned callbacks, and visit_i64 of a value >= 0
u64_visit(format, v) ==
    CASE format \in {"UInt8", "UInt16", "UInt32"} -> Ok(<<"u64", as_u64(v)>>)
      [] format = "SInt64" ->
           IF v[1] < 128 THEN Ok(<<"u64", v>>) ELSE Err("Message: invalid value")
      [] OTHER -> InvalidType

\* the visitor of the field identifier that derive(Deserialize) makes for
\* struct Point { x, y } (tests/point.rs): visit_str and visit_bytes of a
\* field's name, visit_u64 of a field's index; a name or index of no field
\* is a field to ignore
field_visit(format, v) ==
    CASE format \in {"AsciiString", "Utf16String", "Data"} ->
           Ok(<<"Field", IF v = <<120>> THEN "x" ELSE IF v = <<121>> THEN "y" ELSE "ignore">>)
      [] format \in {"UInt8", "UInt16", "UInt32"} ->
           Ok(<<"Field", IF as_u64(v) = U64(0) THEN "x"
                         ELSE IF as_u64(v) = U64(1) THEN "y" ELSE "ignore">>)
      [] OTHER -> InvalidType

visit_leaf(visitor, format, v) ==
    CASE visitor = "Object"      -> object_visit(format, v)
      [] visitor = "U8"          -> u8_visit(format, v)
      [] visitor = "U64"         -> u64_visit(format, v)
      [] visitor = "PointField"  -> field_visit(format, v)
      [] visitor = "IgnoredAny"  -> Ok(<<"Ignored">>)
      [] visitor = "DateFromF64" -> date_from_f64_visit(format, v)
      [] visitor = "UidFromU64"  -> uid_from_u64_visit(format, v)
      [] OTHER                   -> InvalidType

accepts_seq(visitor) == visitor \in {"Object", "VecU8", "Point", "IgnoredAny"}
accepts_map(visitor) == visitor \in {"Object", "Point", "IgnoredAny"}

\* the visitor of the elements of the sequence a visitor builds
element_visitor(visitor) ==
    CASE visitor = "VecU8"      -> "U8"
      [] visitor = "Point"      -> "U64"
      [] visitor = "IgnoredAny" -> "IgnoredAny"
      [] OTHER                  -> "Object"

\* a variant of Frame whose access object hands out the references from the
\* last to the first
Frame_from_back(object, format, visitor, refs) ==
    [object |-> object, format |-> format, visitor |-> visitor,
     refs |-> [i \in 1..Len(refs) |-> refs[Len(refs) + 1 - i]],
     idx |-> 0, mode |-> IF format = "Array" THEN "elem" ELSE "key",
     acc |-> <<>>, key |-> <<>>]

\* a collection whose visitor is running
Frame(object, format, visitor, refs) ==
    [object |-> object, format |-> format, visitor |-> visitor, refs |-> refs,
     idx |-> 0, mode |-> IF format = "Array" THEN "elem" ELSE "key",
     acc |-> <<>>, key |-> <<>>]

Top == frames[Len(frames)]
SetTop(f) == [frames EXCEPT ![Len(frames)] = f]

(***************************************************************************)
(* ObjectDeserializer::deserialize_any, src/de/mod.rs:382-458, called for  *)
(* object with visitor while the set is stack: what the call does up to    *)
(* the point where it returns or hands control to the visitor of a         *)
(* collection.  kind is                                                    *)
(*   "panic"  an assertion failed;                                         *)
(*   "err"    it returns the error ret before any callback;                *)
(*   "leaf"   it calls the visitor's method for a value that is no         *)
(*            collection and returns the visitor's ret;                    *)
(*   "reject" it has entered the collection, the visitor refuses a         *)
(*            sequence or map, and it leaves the collection again;         *)
(*   "enter"  it has entered the collection and the visitor runs.          *)
(***************************************************************************)
returns(stack, r) == [kind |-> "err", ret |-> r, format |-> "", refs |-> <<>>, stack |-> stack]

\* a variant of deserialize_parsed that tracks every object it has visited,
\* and not only the collections it is inside of
deserialize_parsed_tracking_all(stack, object, visitor, format, p) ==
    LET e == enter_collection(stack, object)
        accepted == IF format = "Array" THEN accepts_seq(visitor) ELSE accepts_map(visitor)
        none == returns(stack, <<>>)
    IN  IF p[1] = "Panic" THEN [none EXCEPT !.kind = "panic", !.ret = p]
        ELSE IF p[1] = "Err" THEN [none EXCEPT !.ret = p]
        ELSE IF \E i \in 1..Len(callbacks) : callbacks[i][2] = object
        THEN [none EXCEPT !.ret = Err("CycleDetected")]
        ELSE IF format \notin {"Array", "Dictionary"}
        THEN [none EXCEPT !.kind = "leaf", !.format = format,
                          !.ret = visit_leaf(visitor, format, p[2])]
        ELSE IF e.res[1] = "Err" THEN [none EXCEPT !.ret = e.res]
        ELSE IF ~accepted
        THEN [none EXCEPT !.kind = "reject", !.format = format, !.ret = InvalidType,
                          !.stack = exit_collection(e.stack).stack]
        ELSE [none EXCEPT !.kind = "enter", !.format = format, !.refs = p[2],
                          !.stack = e.stack]

\* the arm of the match for format, p being what parse_<format> returned
deserialize_parsed(stack, object, visitor, format, p) ==
    LET e == enter_collection(stack, object)
        accepted == IF format = "Array" THEN accepts_seq(visitor) ELSE accepts_map(visitor)
        none == returns(stack, <<>>)
    IN  IF p[1] = "Panic" THEN [none EXCEPT !.kind = "panic", !.ret = p]
        ELSE IF p[1] = "Err" THEN [none EXCEPT !.ret = p]
        ELSE IF format \notin {"Array", "Dictionary"}
        THEN [none EXCEPT !.kind = "leaf", !.format = format,
                          !.ret = visit_leaf(visitor, format, p[2])]
        ELSE IF e.res[1] = "Err" THEN [none EXCEPT !.ret = e.res]
        ELSE IF ~accepted
        THEN [none EXCEPT !.kind = "reject", !.format = format, !.ret = InvalidType,
                          !.stack = exit_collection(e.stack).stack]
        ELSE [none EXCEPT !.kind = "enter", !.format = format, !.refs = p[2],
                          !.stack = e.stack]

deserialize_format(bytes, md, stack, object, visitor, format) ==
    deserialize_parsed(stack, object, visitor, format, parse(format, bytes, md, object))

deserialize_any(bytes, md, stack, object, visitor) ==
    LET k == kind_of(bytes, md, object)
    IN  IF k[1] = "Err" THEN returns(stack, k)
        ELSE deserialize_format(bytes, md, stack, object, visitor, k[2])

\* the map's keys so far (BTreeMap::contains_key)
contains_key(acc, k) == \E i \in 1..Len(acc) : acc[i][1] = k

\* a variant of finished_value whose visitors put each element in front of
\* the elements they hold
finished_value_pushing_front(f) ==
    IF f.format = "Dictionary" THEN <<"Dictionary", {f.acc[i] : i \in 1..Len(f.acc)}>>
    ELSE IF f.visitor = "VecU8"
    THEN <<"Vec", [i \in 1..Len(f.acc) |-> f.acc[Len(f.acc) + 1 - i][2]]>>
    ELSE <<"Array", [i \in 1..Len(f.acc) |-> f.acc[Len(f.acc) + 1 - i]]>>

\* the value a visitor returns when its access object is exhausted
finished_value(f) ==
    IF f.format = "Dictionary" THEN <<"Dictionary", {f.acc[i] : i \in 1..Len(f.acc)}>>
    ELSE IF f.visitor = "VecU8" THEN <<"Vec", [i \in 1..Len(f.acc) |-> f.acc[i][2]]>>
    ELSE <<"Array", f.acc>>

\* a variant of field_of that fills the fields in the order of the pairs
field_of_in_wire_order(acc, name) ==
    IF name = "x" THEN acc[1][2][2] ELSE acc[2][2][2]

\* the value of the field of Point in acc, the pairs of field and value
field_of(acc, name) ==
    LET i == CHOOSE k \in 1..Len(acc) : acc[k][1] = <<"Field", name>>
    IN  acc[i][2][2]

\* what a visitor returns when its access object is exhausted: ObjectVisitor
\* and Vec's visitor a value, the derived visitor of Point (tests/point.rs)
\* a Point, or an error for a field it did not receive
finished(f) ==
    CASE f.visitor = "IgnoredAny" -> Ok(<<"Ignored">>)
      [] f.visitor = "Point" /\ f.format = "Array" ->
           IF Len(f.acc) < 2 THEN Err("Message: invalid length")
           ELSE Ok(<<"Point", [x |-> f.acc[1][2], y |-> f.acc[2][2]]>>)
      [] f.visitor = "Point" /\ f.format = "Dictionary" ->
           IF \E n \in {"x", "y"} : ~contains_key(f.acc, <<"Field", n>>)
           THEN Err("Message: missing field")
           ELSE Ok(<<"Point", [x |-> field_of(f.acc, "x"), y |-> field_of(f.acc, "y")]>>)
      [] OTHER -> Ok(finished_value(f))

\* The visitor of the innermost collection of fs returns r: deserialize_any
\* calls exit_collection and returns r (src/de/mod.rs:441-443, 453-455).
Leave(fs, r) ==
    \E x \in {exit_collection(collection_stack)} :
        IF x.panic
        THEN /\ result' = Panic("unbalanced calls in object stack tracking")
             /\ pc' = "done"
             /\ frames' = fs
             /\ UNCHANGED <<collection_stack, ret>>
        ELSE /\ collection_stack' = x.stack
             /\ frames' = SubSeq(fs, 1, Len(fs) - 1)
             /\ ret' = r
             /\ pc' = "return"
             /\ UNCHANGED result

\* The visitor of the innermost collection of fs receives the value v it asked
\* for (ObjectVisitor::visit_seq, visit_map, src/object/de.rs:86-130).
Deliver(fs, v) ==
    LET f == fs[Len(fs)]
        Keep(g) == /\ frames' = [fs EXCEPT ![Len(fs)] = g]
                   /\ pc' = "visit"
                   /\ UNCHANGED <<collection_stack, ret, result>>
    IN  CASE f.mode = "elem"  -> Keep([f EXCEPT !.acc = Append(f.acc, v)])
          [] f.mode = "key"   -> Keep([f EXCEPT !.key = <<v>>, !.mode = "value"])
          [] f.mode = "value" -> Keep([f EXCEPT !.acc = Append(f.acc, <<f.key[1], v>>),
                                                !.key = <<>>, !.mode = "key"])
          [] f.mode = "date_value" -> Leave(fs, Ok(<<"Date", v[2]>>))
          [] f.mode = "uid_value"  -> Leave(fs, Ok(<<"Uid", v[2]>>))

\* The access object of the innermost collection of fs (or, for fs = <<>>,
\* Deserializer::deserialize_any) points the deserializer at object and
\* deserializes it for visitor: set_next_object, then deserialize_any.
Deserialize(fs, object, visitor) ==
    \E o \in {deserialize_any(input, metadata[1], collection_stack, object, visitor)} :
      LET fired == Append(callbacks, <<callback_of(o.format), object>>)
      IN
        /\ next_object' = object
        /\ CASE o.kind = "panic" ->
                  /\ result' = o.ret /\ pc' = "done" /\ frames' = fs
                  /\ UNCHANGED <<collection_stack, ret, callbacks>>
             [] o.kind = "err" ->
                  /\ ret' = o.ret /\ pc' = "return" /\ frames' = fs
                  /\ UNCHANGED <<collection_stack, result, callbacks>>
             [] o.kind = "leaf" ->
                  /\ callbacks' = fired
                  /\ IF o.ret[1] = "Err" \/ fs = <<>>
                     THEN /\ ret' = o.ret /\ pc' = "return" /\ frames' = fs
                          /\ UNCHANGED <<collection_stack, result>>
                     ELSE Deliver(fs, o.ret[2])
             [] o.kind = "reject" ->
                  /\ callbacks' = fired
                  /\ collection_stack' = o.stack
                  /\ ret' = o.ret /\ pc' = "return" /\ frames' = fs
                  /\ UNCHANGED result
             [] o.kind = "enter" ->
                  /\ callbacks' = fired
                  /\ collection_stack' = o.stack
                  /\ frames' = Append(fs, Frame(object, o.format, visitor, o.refs))
                  /\ pc' = "visit"
                  /\ UNCHANGED <<ret, result>>

(***************************************************************************)
(* Deserializer::deserialize_any, src/de/mod.rs:283-307, after             *)
(* parse_metadata: the check of the root's kind, and the call that is      *)
(* forwarded to ObjectDeserializer::deserialize_any for the root.          *)
(***************************************************************************)
\* a variant of root_is_collection that forgets the check
root_is_anything(format) == TRUE

root_is_collection(format) == format \in {"Array", "Dictionary"}

RootDispatch ==
    /\ pc = "root"
    /\ \E md \in {metadata[1]} : \E k \in {kind_of(input, md, md.root_object)} :
           IF k[1] = "Err"
           THEN /\ pc' = "done" /\ result' = k
                /\ UNCHANGED walker_vars
           ELSE IF root_is_collection(k[2])
           THEN /\ Deserialize(<<>>, md.root_object, materializer)
           ELSE /\ pc' = "done"
                /\ result' = Err("RootObjectNotArrayOrDictionary")
                /\ next_object' = md.root_object
                /\ UNCHANGED <<collection_stack, frames, ret, callbacks>>
    /\ UNCHANGED envelope_vars

(***************************************************************************)
(* The visitor of the innermost collection runs one round of its loop: it  *)
(* asks its access object for the next element, key or value, which is     *)
(* deserialized, or it returns.                                            *)
(*   ArraySequence::next_element_seed        src/de/mod.rs:498-508         *)
(*   DictionarySequence::next_key_seed       src/de/mod.rs:531-545         *)
(*   DictionarySequence::next_value_seed     src/de/mod.rs:547-555         *)
(*   ObjectVisitor::visit_seq, visit_map     src/object/de.rs:86-130       *)
(***************************************************************************)
\* what the next round of the visitor of frame f does: it asks for object to
\* be deserialized for visitor (f becoming frame), or it returns ret
ask(object, visitor, frame) ==
    [kind |-> "ask", object |-> object, visitor |-> visitor, frame |-> frame, ret |-> <<>>]
finish(f, r) ==
    [kind |-> "finish", object |-> <<>>, visitor |-> "", frame |-> f, ret |-> r]

request(f) ==
    LET more == f.idx < Len(f.refs)
    IN  CASE f.mode = "elem" ->
               \* the derived visit_seq of Point asks for its two fields only
               IF more /\ (f.visitor = "Point" => f.idx < 2)
               THEN ask(f.refs[f.idx + 1], element_visitor(f.visitor),
                        [f EXCEPT !.idx = f.idx + 1])
               ELSE finish(f, finished(f))
          [] f.mode = "key" ->
               IF more
               THEN ask(f.refs[f.idx + 1][1],
                        CASE f.visitor = "Point"      -> "PointField"
                          [] f.visitor = "IgnoredAny" -> "IgnoredAny"
                          [] OTHER                    -> "Object",
                        [f EXCEPT !.idx = f.idx + 1])
               ELSE finish(f, finished(f))
          [] f.mode = "value" ->
               LET name == f.key[1]
                   value == f.refs[f.idx][2]
               IN  IF f.visitor = "IgnoredAny" THEN ask(value, "IgnoredAny", f)
                   ELSE IF f.visitor = "Point"
                   THEN IF name[2] = "ignore" THEN ask(value, "IgnoredAny", f)
                        ELSE IF contains_key(f.acc, name)
                        THEN finish(f, Err("Message: duplicate field"))
                        ELSE ask(value, "U64", f)
                   ELSE IF f.idx = 1 /\ name[1] = "String" /\ name[2] = DATE_STRUCT_FIELD
                   THEN ask(value, "DateFromF64", [f EXCEPT !.mode = "date_value"])
                   ELSE IF f.idx = 1 /\ name[1] = "String" /\ name[2] = UID_STRUCT_FIELD
                   THEN ask(value, "UidFromU64", [f EXCEPT !.mode = "uid_value"])
                   ELSE IF contains_key(f.acc, name)
                   \* the message holds the key as its Debug form renders it
                   THEN finish(f, Err("Message: duplicate key: " \o ToString(name)))
                   ELSE ask(value, "Object", f)

\* a variant of Visit whose access object hands out the references of an
\* Array starting from either end
Visit_from_either_end ==
    /\ pc = "visit"
    /\ \E f \in {Top} \cup
                 (IF Top.mode = "elem" /\ Top.idx = 0
                  THEN {[Top EXCEPT !.refs =
                           [i \in 1..Len(Top.refs) |-> Top.refs[Len(Top.refs) + 1 - i]]]}
                  ELSE {}) :
         \E q \in {request(f)} :
           IF q.kind = "ask"
           THEN Deserialize(SetTop(q.frame), q.object, q.visitor)
           ELSE Leave(frames, q.ret) /\ UNCHANGED <<next_object, callbacks>>
    /\ UNCHANGED envelope_vars

Visit ==
    /\ pc = "visit"
    /\ \E q \in {request(Top)} :
         IF q.kind = "ask"
         THEN Deserialize(SetTop(q.frame), q.object, q.visitor)
         ELSE Leave(frames, q.ret) /\ UNCHANGED <<next_object, callbacks>>
    /\ UNCHANGED envelope_vars

(***************************************************************************)
(* The deserialize_any of a collection has returned ret: to the caller of  *)
(* the decode, or to the visitor of the enclosing collection, which        *)
(* returns an error at once (the ? operator) and keeps a value.            *)
(***************************************************************************)
\* a variant of Return whose visitor puts a unit value in the place of an
\* element that failed, and goes on
Return_skipping_errors ==
    /\ pc = "return"
    /\ IF frames = <<>>
       THEN /\ result' = ret
            /\ pc' = "done"
            /\ UNCHANGED <<collection_stack, frames, ret>>
       ELSE IF ret[1] = "Err" THEN Deliver(frames, <<"Unit", <<>>>>)
       ELSE Deliver(frames, ret[2])
    /\ UNCHANGED <<next_object, callbacks>>
    /\ UNCHANGED envelope_vars

Return ==
    /\ pc = "return"
    /\ IF frames = <<>>
       THEN /\ result' = ret
            /\ pc' = "done"
            /\ UNCHANGED <<collection_stack, frames, ret>>
       ELSE IF ret[1] = "Err" THEN Leave(frames, ret)
       ELSE Deliver(frames, ret[2])
    /\ UNCHANGED envelope_vars
    /\ UNCHANGED <<next_object, callbacks>>

(***************************************************************************)
(* Documents.                                                              *)
(***************************************************************************)
MkTrailer(es, rs, n, root, oto) ==
    Zeros(TRAILER_PREAMBLE_UNUSED_SIZE) \o <<0, es, rs>> \o n \o root \o oto

\* envelopes: a fixed body (two empty arrays at 8 and 9, then six bytes that
\* hold an offset table of one-byte entries at 10 and of two-byte entries at
\* 12) under every combination of header and trailer fields below
EnvHeaders ==
    { HEADER_MAGIC_NUMBER \o <<48, 48>>,
      HEADER_MAGIC_NUMBER \o <<49, 53>>,
      HEADER_MAGIC_NUMBER \o <<48, 49>>,
      <<98, 112, 108, 105, 115, 84>> \o <<48, 48>>,
      <<0, 112, 108, 105, 115, 116>> \o <<49, 53>> }

EnvBody == <<160, 160, 8, 9, 0, 8, 0, 9>>

EnvWords ==
    { U64(0), U64(1), U64(2), U64(3), U64(7),
      U64Max, <<128, 0, 0, 0, 0, 0, 0, 0>>, <<128, 0, 0, 0, 0, 0, 0, 1>>,
      <<32, 0, 0, 0, 0, 0, 0, 0>> }

EnvOffsets ==
    { U64(0), U64(9), U64(10), U64(12), U64(14), U64(15), U64(16), U64(17),
      U64Max, <<255, 255, 255, 255, 255, 255, 255, 254>>,
      <<128, 0, 0, 0, 0, 0, 0, 10>> }

EnvelopeDocs ==
    { h \o EnvBody \o MkTrailer(es, 1, n, root, oto) :
        h \in EnvHeaders, es \in {1, 2, 8},
        n \in EnvWords, root \in {U64(0), U64(1), U64(2), U64Max},
        oto \in EnvOffsets }

\* inputs cut short, below the smallest possible document
ShortDocs ==
    { Take(h \o EnvBody \o MkTrailer(1, 1, U64(2), U64(0), U64(10)), l) :
        h \in EnvHeaders, l \in {0, 5, 8, 30, 40, 41} }

\* object tables: an array of two references at 8, a UInt8 at 11 and an
\* empty array at 13 under every offset table and pair of references below;
\* the offset table stands at 14 and object 0 is the root
TableOffsets == {7, 8, 11, 13, 14, 200}
TableRefs == {0, 1, 2, 3, 255}

TableDocs ==
    { HEADER_MAGIC_NUMBER \o HEADER_VERSION_00
        \o <<160 + 2, r1, r2, 16, 5, 160>> \o <<o0, o1, o2>>
        \o MkTrailer(1, 1, U64(3), U64(0), U64(14)) :
        r1 \in TableRefs, r2 \in TableRefs,
        o0 \in TableOffsets, o1 \in TableOffsets, o2 \in TableOffsets }

\* roots of every kind: one object, which is the root
KindBodies ==
    { <<0>>, <<8>>, <<9>>, <<15>>, <<16, 7>>, <<17, 1, 2>>, <<18, 1, 2, 3, 4>>,
      <<19>> \o U64(9), <<34, 63, 128, 0, 0>>, <<35>> \o U64(0), <<51>> \o U64(0),
      <<64 + 1, 255>>, <<80 + 1, 97>>, <<96 + 1, 0, 97>>, <<128, 3>>,
      <<160>>, <<208>>, <<240>> }

KindDocs ==
    { HEADER_MAGIC_NUMBER \o HEADER_VERSION_00 \o b \o <<HEADER_SIZE>>
        \o MkTrailer(1, 1, U64(1), U64(0), U64(HEADER_SIZE + Len(b))) :
        b \in KindBodies }

\* objects with a count whose payload is cut short or malformed, and a valid
\* one of each kind: Data, AsciiString, Utf16String, Array, Dictionary
PayloadBodies ==
    { <<79, 17, 1, 0>>, <<79, 8>>, <<65, 7>>,
      <<95, 17, 1, 0>>, <<81, 200>>, <<81, 97>>,
      <<111, 17, 1, 0>>, <<97, 216, 0>>, <<98, 216, 0, 0, 97>>, <<97, 220, 0>>,
      <<97, 0, 97>>,
      <<175, 17, 1, 0>>, <<175, 8>>, <<160>>,
      <<223, 17, 1, 0>>, <<209, 0>>, <<208>>,
      <<80>>, <<82, 97, 128>>, <<83, 255, 97, 98>>, <<83, 97, 0, 127>>,
      <<95, 16, 2, 97, 200>>, <<95, 16, 2, 97, 98>>,
      \* at the end of the object table, Data and strings whose payload is
      \* not in the table: 34 bytes follow the table
      <<69>>, <<79, 16, 1>>, <<79, 16, 3>>, <<79, 16, 34>>, <<79, 16, 35>>,
      <<79, 16, 36>>, <<85>>, <<95, 16, 34>>, <<95, 16, 35>>,
      \* a Date, and Uids of 1, 2 and 16 bytes
      <<51, 65, 184, 69, 230, 21, 0, 0, 1>>, <<128, 3>>, <<129, 1, 2>>,
      <<143, 1, 2, 3, 4, 5, 6, 7, 8, 9, 10, 11, 12, 13, 14, 15, 16>> }

\* a root Array (object 0) of one reference to object 1, which is one of
\* the bodies above
PayloadDocs ==
    { HEADER_MAGIC_NUMBER \o HEADER_VERSION_00 \o <<161, 1>> \o b \o <<8, 10>>
        \o MkTrailer(1, 1, U64(2), U64(0), U64(10 + Len(b))) :
        b \in PayloadBodies }

\* a root Dictionary (object 0) of one pair, or of the same pair twice, whose
\* key (object 1) is a string, one of the field names of the Date and Uid
\* pseudo-structures among them, and whose value (object 2) is a Float64, a
\* Float32, a UInt8, a string or an empty Array
MagicKeyDocs ==
    { HEADER_MAGIC_NUMBER \o HEADER_VERSION_00 \o d \o k \o v
        \o <<8, 8 + Len(d), 8 + Len(d) + Len(k)>>
        \o MkTrailer(1, 1, U64(3), U64(0), U64(8 + Len(d) + Len(k) + Len(v))) :
        d \in { <<209, 1, 2>>, <<210, 1, 1, 2, 2>> },
        k \in { <<95, 16, 36>> \o DATE_STRUCT_FIELD, <<95, 16, 26>> \o UID_STRUCT_FIELD,
                <<81, 120>> },
        v \in { <<35, 65, 184, 69, 230, 21, 0, 0, 1>>, <<34, 63, 128, 0, 0>>, <<16, 7>>,
                <<81, 121>>, <<160>> } }

\* trailers that declare an entry size and a reference size of 0, 1 and 9:
\* one object, the root, an empty Array or an Array of one reference, and
\* nine bytes that hold the offset table
SizeDocs ==
    { HEADER_MAGIC_NUMBER \o HEADER_VERSION_00 \o b \o <<8>> \o Zeros(8)
        \o MkTrailer(es, rs, U64(1), U64(0), U64(8 + Len(b))) :
        b \in { <<160>>, <<161, 0>> }, es \in {0, 1, 9}, rs \in {0, 1, 9} }

\* the smallest possible document (src/de/mod.rs:224-228): one empty Array,
\* which is the root; and the same header, object and offset table followed
\* by 26 bytes, a trailer without its root_object word
EmptyArrayDocs ==
    { HEADER_MAGIC_NUMBER \o HEADER_VERSION_00 \o <<160, 8>>
        \o MkTrailer(1, 1, U64(1), U64(0), U64(9)),
      HEADER_MAGIC_NUMBER \o HEADER_VERSION_00 \o <<160, 8>>
        \o Zeros(8) \o <<1, 1>> \o U64(1) \o U64(9) }

(***************************************************************************)
(* Object graphs: MaxObjects objects, each a UInt8, an Array of at most    *)
(* MaxCount references or a Dictionary of one pair, every reference to one *)
(* of the objects; any of them is the root.  Offsets and references take   *)
(* one byte.                                                               *)
(***************************************************************************)
Ids == 0..(MaxObjects - 1)

RefLists == UNION { [1..k -> Ids] : k \in 0..MaxCount }

\* the object descriptions that may stand at id i
ObjectChoices(i) ==
    { <<"u8", <<i + 1>>>> }
      \cup { <<"arr", refs>> : refs \in RefLists }
      \cup { <<"dict", <<k, v>>>> : k \in Ids, v \in Ids }

ObjectBytes(o) ==
    CASE o[1] = "u8"   -> <<16>> \o o[2]
      [] o[1] = "arr"  -> <<160 + Len(o[2])>> \o o[2]
      [] o[1] = "dict" -> <<208 + 1>> \o o[2]

RECURSIVE Concat(_)
Concat(ss) == IF ss = <<>> THEN <<>> ELSE Head(ss) \o Concat(Tail(ss))

RECURSIVE OffsetsOf(_, _)
OffsetsOf(ss, at) ==
    IF ss = <<>> THEN <<>> ELSE <<at>> \o OffsetsOf(Tail(ss), at + Len(Head(ss)))

GraphDoc(objs, root) ==
    LET parts == [i \in 1..Len(objs) |-> ObjectBytes(objs[i])]
        body == Concat(parts)
    IN  HEADER_MAGIC_NUMBER \o HEADER_VERSION_00 \o body
          \o OffsetsOf(parts, HEADER_SIZE)
          \o MkTrailer(1, 1, U64(Len(objs)), U64(root), U64(HEADER_SIZE + Len(body)))

RECURSIVE GraphsOf(_)
\* the lists of n objects, the object at id i one of ObjectChoices(i)
GraphsOf(n) ==
    IF n = 0 THEN { <<>> }
    ELSE { Append(g, o) : g \in GraphsOf(n - 1), o \in ObjectChoices(n - 1) }

Graphs == GraphsOf(MaxObjects)

GraphDocs == { GraphDoc(g, root) : g \in Graphs, root \in Ids }

Start ==
    /\ pc = "parse_metadata"
    /\ trl = <<>>
    /\ metadata = <<>>
    /\ next_object = U64(0)
    /\ collection_stack = {}
    /\ frames = <<>>
    /\ ret = <<>>
    /\ callbacks = <<>>
    /\ result = <<>>

\* decodes of the object graphs
Init ==
    /\ input \in GraphDocs
    /\ overflow_checks = FALSE
    /\ materializer \in {"VecU8", "Object"}
    /\ earlier = <<>>
    /\ Start

\* decodes of the envelopes
InitEnvelope ==
    /\ \/ /\ input \in EnvelopeDocs \cup ShortDocs \cup TableDocs \cup KindDocs \cup PayloadDocs
                         \cup MagicKeyDocs \cup SizeDocs
          /\ materializer \in {"Object"}
       \/ /\ input \in EmptyArrayDocs
          /\ materializer \in {"VecU8", "Object"}
    /\ overflow_checks \in BOOLEAN
    /\ earlier = <<>>
    /\ Start

Next ==
    \/ ParseMetadata
    \/ RootDispatch
    \/ Visit
    \/ Return

Spec == Init /\ [][Next]_vars

SpecEnvelope == InitEnvelope /\ [][Next]_vars

(***************************************************************************)
(* Records: a root Dictionary of two pairs (object 0) whose keys and       *)
(* values are any of the strings "x" (1) and "y" (2), the UInt8 objects 1  *)
(* (3) and 20 (4) and the Array [3, 4] (5); a key may also be a second     *)
(* string "x" (6).                                                         *)
(***************************************************************************)
RecordObjects ==
    <<81, 120>> \o <<81, 121>> \o <<16, 1>> \o <<16, 20>> \o <<162, 3, 4>> \o <<81, 120>>

RecordDoc(ka, kb, va, vb) ==
    HEADER_MAGIC_NUMBER \o HEADER_VERSION_00
      \o <<208 + 2, ka, kb, va, vb>> \o RecordObjects
      \o <<8, 13, 15, 17, 19, 21, 24>>
      \o MkTrailer(1, 1, U64(7), U64(0), U64(26))

RecordDocs == { RecordDoc(ka, kb, va, vb) : ka \in 1..6, kb \in 1..6, va \in 1..5, vb \in 1..5 }

\* decodes of the records
InitRecords ==
    /\ \/ input \in RecordDocs /\ materializer = "Object"
       \* into Point: the documents whose keys are the strings
       \/ /\ input \in { RecordDoc(ka, kb, va, vb) : ka, kb \in 1..2, va, vb \in 1..5 }
          /\ materializer = "Point"
    /\ overflow_checks = FALSE
    /\ earlier = <<>>
    /\ Start

SpecRecords == InitRecords /\ [][Next]_vars

(***************************************************************************)
(* The parsers of src/de/parser/object.rs applied to the data of one       *)
(* object: input is the slice data_for returns, and ret records the call   *)
(* and what it returned.                                                   *)
(***************************************************************************)
\* every marker byte, alone and followed by a payload, and no byte at all
MarkerInputs == { <<b>> \o t : b \in Byte, t \in {<<>>, <<1, 2>>} } \cup { <<>> }

\* what may follow a marker whose value bits are 15: integer objects of
\* every width (the last one negative as an i64), and bytes that are none
CountObjects ==
    UNION { { <<16, n>>, <<17, 0, n>>, <<18, 0, 0, 0, n>>, <<19>> \o U64(n) } :
            n \in 0..3 }
      \cup { <<17, 1, 0>>, <<19>> \o U64Max, <<>>, <<16>>, <<8>>, <<20, 1>>,
             <<35>> \o U64(1), <<81, 97>> }

CountPayloads == { <<>>, <<1, 2, 3>>, <<1, 2, 3, 4, 5, 6, 7, 8, 9, 10, 11, 12>> }

\* the objects with a count: Data, AsciiString, Utf16String, Array and
\* Dictionary markers with the count in the value bits or after the marker
CountInputs ==
    { <<k + v>> \o t : k \in {64, 80, 96, 160, 208}, v \in {0, 1, 2, 3, 14},
                        t \in CountPayloads }
      \cup { <<k + 15>> \o c \o t : k \in {64, 80, 96, 160, 208}, c \in CountObjects,
                                   t \in CountPayloads }

ParserInputs == MarkerInputs \cup CountInputs

InitParser ==
    /\ input \in ParserInputs
    /\ overflow_checks = FALSE
    /\ materializer = "Object"
    /\ earlier = <<>>
    /\ pc = "parse_object"
    /\ trl = <<>>
    /\ metadata = <<>>
    /\ next_object = U64(0)
    /\ collection_stack = {}
    /\ frames = <<>>
    /\ ret = <<>>
    /\ callbacks = <<>>
    /\ result = <<>>

\* ObjectTable::kind_of on the data: any_marker, then the kind or the error
Classify ==
    /\ pc = "parse_object"
    /\ \E m \in {any_marker(input)} :
           ret' = <<"kind_of", m, classified(m)>>
    /\ pc' = "parsed"
    /\ UNCHANGED <<next_object, collection_stack, frames, callbacks, result>>
    /\ UNCHANGED envelope_vars

\* one of the parsers of the formats, for a reference size rs
ParseAs ==
    /\ pc = "parse_object"
    /\ \E i \in 1..Len(ObjectFormat), rs \in {1, 2} :
         \E r \in {parser_of(ObjectFormat[i], [object_reference_size |-> U64(rs)], input)} :
           ret' = <<ObjectFormat[i], rs, r>>
    /\ pc' = "parsed"
    /\ UNCHANGED <<next_object, collection_stack, frames, callbacks, result>>
    /\ UNCHANGED envelope_vars

NextParser == Classify \/ ParseAs

(***************************************************************************)
(* A caller that decodes the same bytes a second time with the same T (the *)
(* tests read one file in two test functions, tests/integer_list.rs): the  *)
(* second from_slice builds a new Deserializer (src/de/mod.rs:210-216).    *)
(***************************************************************************)
DecodeAgain ==
    /\ pc = "done"
    /\ earlier = <<>>
    /\ earlier' = <<callbacks, result>>
    /\ pc' = "parse_metadata"
    /\ trl' = <<>>
    /\ metadata' = <<>>
    /\ next_object' = U64(0)
    /\ collection_stack' = {}
    /\ frames' = <<>>
    /\ ret' = <<>>
    /\ callbacks' = <<>>
    /\ result' = <<>>
    /\ UNCHANGED <<input, overflow_checks, materializer>>

NextTwice == Next \/ DecodeAgain

SpecTwice == Init /\ [][NextTwice]_vars

SpecParser == InitParser /\ [][NextParser]_vars

(***************************************************************************)
(* The document as its bytes say, read without the parsers above: the      *)
(* header (8 bytes) and the trailer (the last 32 bytes: 5 unused, the sort *)
(* version, the two sizes, then three 8-byte words).                       *)
(***************************************************************************)
DocLen == Len(input)
HasMagic == DocLen >= 6 /\ SubSeq(input, 1, 6) = <<98, 112, 108, 105, 115, 116>>
HasVersion00 == DocLen >= 8 /\ input[7] = 48 /\ input[8] = 48
ValidHeader == DocLen >= 42 /\ HasMagic /\ HasVersion00
TrailerWord(k) == SubSeq(input, DocLen - 32 + k, DocLen - 32 + k + 7)
TrailerEntrySize == input[DocLen - 32 + 7]
TrailerReferenceSize == input[DocLen - 32 + 8]
TrailerCount == TrailerWord(9)
TrailerRoot == TrailerWord(17)
TrailerOffset == TrailerWord(25)
ValidRoot == DigitsLt(TrailerRoot, TrailerCount)

\* the decode has left parse_metadata
Parsed == pc # "parse_metadata"

\* C5: an input shorter than 8 + 2 + 32 = 42 bytes fails with Eof, whatever
\* its content
C5_ShortInputIsEof == (Parsed /\ DocLen < 42) => pc = "done" /\ IsErr("Eof")

\* an input of 41 bytes with a valid header has failed with Eof
C5_Witness == pc = "done" /\ DocLen = 41 /\ HasMagic /\ HasVersion00 /\ IsErr("Eof")

\* C6: for an input of at least 42 bytes, a wrong magic number fails with
\* MissingOrInvalidHeader and, the magic being right, a version other than
\* (0x30, 0x30) fails with UnsupportedVersion, in both cases before the
\* trailer is parsed
C6_HeaderChecked ==
    (Parsed /\ DocLen >= 42) =>
        /\ ~HasMagic => IsErr("MissingOrInvalidHeader") /\ trl = <<>>
        /\ (HasMagic /\ ~HasVersion00) => IsErr("UnsupportedVersion") /\ trl = <<>>

\* a document of version "15" whose trailer is otherwise valid has failed with
\* UnsupportedVersion
C6_Witness ==
    /\ pc = "done" /\ DocLen >= 42 /\ HasMagic /\ input[7] = 49 /\ input[8] = 53
    /\ ValidRoot
    /\ IsErr("UnsupportedVersion")

\* C7: a document with a valid header whose root_object is not below
\* number_of_objects fails with InvalidRootObject, and no Metadata (offset
\* table) has been produced, nor has the arithmetic that locates the table
\* run (it would panic or fail for some of these trailers)
C7_RootChecked ==
    (Parsed /\ ValidHeader /\ ~ValidRoot) =>
        pc = "done" /\ IsErr("InvalidRootObject") /\ metadata = <<>>

\* a document with number_of_objects = 0, root_object = 0 and an offset table
\* offset of 2^64 - 1 has failed with InvalidRootObject
C7_Witness ==
    /\ pc = "done" /\ ValidHeader
    /\ TrailerCount = U64(0) /\ TrailerRoot = U64(0) /\ TrailerOffset = U64Max
    /\ IsErr("InvalidRootObject")

\* offset_table_offset + number_of_objects * offset_table_entry_size, as
\* mathematical integers, is at most input_len - 32
TableFits ==
    LET mul == usize_mul(TrailerCount, U64(TrailerEntrySize))
        sum == usize_add(TrailerOffset, mul.val)
    IN  ~mul.overflow /\ ~sum.overflow /\ DigitsLe(sum.val, U64(DocLen - 32))

\* C8: with a valid header and root, parse_metadata succeeds only if the
\* table fits before the trailer in mathematical integers, and otherwise
\* returns MissingOrInvalidOffsetTable
C8_TableFitsOrError ==
    (Parsed /\ ValidHeader /\ ValidRoot) =>
        IF TableFits
        THEN metadata # <<>> \/ IsErr("MissingOrInvalidOffsetTable")
        ELSE metadata = <<>> /\ IsErr("MissingOrInvalidOffsetTable")

\* C9: when parse_metadata succeeds the offset table has number_of_objects
\* entries, entry i the big-endian value of the entry-size bytes at
\* offset_table_offset + i * entry size; root_object and
\* object_reference_size are the trailer's; object_table_range is
\* [8, offset_table_offset)
C9_MetadataOfTrailer ==
    metadata # <<>> =>
        LET md == metadata[1]
            es == TrailerEntrySize
            at == Nat24(TrailerOffset)
        IN  /\ IsSmall(TrailerCount) /\ IsSmall(TrailerOffset)
            /\ Len(md.offset_table) = Nat24(TrailerCount)
            /\ \A i \in 1..Len(md.offset_table) :
                 md.offset_table[i] =
                   [n \in 1..8 |-> IF n <= 8 - es THEN 0
                                   ELSE input[at + (i - 1) * es + (n - (8 - es))]]
            /\ md.root_object = TrailerRoot
            /\ md.object_reference_size = U64(TrailerReferenceSize)
            /\ md.object_table_range = <<U64(8), TrailerOffset>>

\* a Metadata with two entries of two bytes each has been produced
C9_Witness ==
    /\ metadata # <<>> /\ TrailerEntrySize = 2
    /\ Len(metadata[1].offset_table) = 2
    /\ metadata[1].offset_table[2] = U64(9)

\* the root's offset, as the produced offset table gives it, and whether it
\* is inside the object table; the root's marker byte
RootOffset == metadata[1].offset_table[Nat24(TrailerRoot) + 1]
RootInTable == DigitsLe(U64(8), RootOffset) /\ DigitsLt(RootOffset, TrailerOffset)
RootMarker == input[Nat24(RootOffset) + 1]

\* the marker bytes of the kinds other than Array and Dictionary
OtherKindMarker(b) ==
    \/ b \in {8, 9, 15, 16, 17, 18, 19, 34, 35, 51}
    \/ b \div 16 \in {4, 5, 6, 8}

\* C10: a document with valid metadata whose root is of a kind other than
\* Array or Dictionary fails with RootObjectNotArrayOrDictionary, and no
\* visitor callback has fired
C10_RootKindChecked ==
    (metadata # <<>> /\ pc # "root" /\ RootInTable /\ OtherKindMarker(RootMarker)) =>
        pc = "done" /\ IsErr("RootObjectNotArrayOrDictionary") /\ callbacks = <<>>

\* a document whose root is an AsciiString has failed with
\* RootObjectNotArrayOrDictionary
C10_Witness ==
    /\ pc = "done" /\ metadata # <<>> /\ RootInTable /\ RootMarker = 81
    /\ IsErr("RootObjectNotArrayOrDictionary") /\ callbacks = <<>>

(***************************************************************************)
(* The objects as the bytes say: the offset table's entry for an id, the   *)
(* marker byte at that offset and, for an Array of fewer than 15 elements, *)
(* the references that follow the marker (of one byte each).               *)
(***************************************************************************)
EntryOf(id) ==
    LET es == TrailerEntrySize
        at == Nat24(TrailerOffset) + Nat24(id) * es
    IN  [n \in 1..8 |-> IF n <= 8 - es THEN 0 ELSE input[at + n - (8 - es)]]
KnownId(id) == DigitsLt(id, TrailerCount)
InTable(offset) == DigitsLe(U64(8), offset) /\ DigitsLt(offset, TrailerOffset)
MarkerOf(id) == input[Nat24(EntryOf(id)) + 1]
IsArray(id) == MarkerOf(id) \in 160..174
ArrayRefs(id) ==
    [k \in 1..(MarkerOf(id) - 160) |-> U64(input[Nat24(EntryOf(id)) + 1 + k])]
IsUInt8(id) == MarkerOf(id) = 16

\* the ids a collection refers to directly (Array, or Dictionary of one pair)
RefsOf(id) ==
    IF IsArray(id) THEN { ArrayRefs(id)[k] : k \in 1..(MarkerOf(id) - 160) }
    ELSE IF MarkerOf(id) = 209
    THEN { U64(input[Nat24(EntryOf(id)) + 1 + k]) : k \in 1..2 }
    ELSE {}

\* the object id the deserializer resolves in the next step, if any: the
\* root, or the reference the visitor of the innermost collection follows
Resolving ==
    IF pc = "root" THEN {TrailerRoot}
    ELSE IF pc = "visit" /\ request(Top).kind = "ask" THEN {request(Top).object}
    ELSE {}

\* the error e is on its way to the caller of the decode
Failing(e) == \/ pc = "return" /\ ret = Err(e)
              \/ pc = "done" /\ result = Err(e)

\* C4: whenever the decoder resolves an object id, the root's or a
\* reference's, an id >= number_of_objects makes the decode fail with
\* InvalidObjectReference and, for an id below, an offset-table entry
\* outside [8, offset_table_offset) makes it fail with
\* InvalidOffsetToObject; the error reaches the caller unchanged; and every
\* object whose visitor callback fired in a successful decode has its offset
\* inside the object table
C4_Step ==
    /\ \A id \in Resolving :
         /\ ~KnownId(id) => Failing("InvalidObjectReference")'
         /\ (KnownId(id) /\ ~InTable(EntryOf(id))) => Failing("InvalidOffsetToObject")'
    /\ \A e \in {"InvalidObjectReference", "InvalidOffsetToObject"} :
         Failing(e) => Failing(e)'

C4_ResolvedInRange ==
    /\ [][C4_Step]_vars
    /\ [](IsOk => \A i \in 1..Len(callbacks) :
                    KnownId(callbacks[i][2]) /\ InTable(EntryOf(callbacks[i][2])))

\* a decode has followed a reference equal to number_of_objects out of an
\* Array and has failed with InvalidObjectReference
C4_Witness ==
    /\ pc = "done" /\ IsErr("InvalidObjectReference")
    /\ callbacks # <<>> /\ next_object = TrailerCount

\* C3: every decode, of any input, ends with a value or an error (and not
\* with a panic)
C3_ValueOrError == pc = "done" => IsOk \/ (Len(result) = 2 /\ result[1] = "Err")

(***************************************************************************)
(* The reference graph of a document.                                      *)
(***************************************************************************)
\* the ids reachable from id in at most n steps
RECURSIVE Within(_, _)
Within(id, n) ==
    IF n = 0 THEN {id}
    ELSE LET near == Within(id, n - 1)
         IN  near \cup UNION { RefsOf(x) : x \in near }

Reachable(id) == Within(id, MaxObjects)

\* id lies on a cycle of references
OnCycle(id) == \E x \in RefsOf(id) : id \in Reachable(x)

\* no object reachable from the root lies on a cycle
Acyclic == \A id \in Reachable(TrailerRoot) : ~OnCycle(id)

\* the root is an Array that refers to itself
SelfReferringRoot == IsArray(TrailerRoot) /\ TrailerRoot \in RefsOf(TrailerRoot)

\* C1: a decode, by Vec<u8> or by Object, of a document whose root Array
\* refers to its own id, and whose other elements the materializer accepts
\* (for Vec<u8>: they are UInt8 objects), fails with CycleDetected
C1_SelfReferenceDetected ==
    (/\ pc = "done"
     /\ SelfReferringRoot
     /\ materializer = "VecU8" =>
          \A x \in RefsOf(TrailerRoot) \ {TrailerRoot} : IsUInt8(x))
    => IsErr("CycleDetected")

\* the decode by Vec<u8> of a root Array [0] at id 0 has failed with
\* CycleDetected
C1_Witness ==
    /\ pc = "done" /\ materializer = "VecU8"
    /\ TrailerRoot = U64(0) /\ MarkerOf(U64(0)) = 161 /\ ArrayRefs(U64(0)) = <<U64(0)>>
    /\ IsErr("CycleDetected")

\* C2: a decode of a document whose reference graph reachable from the root
\* is acyclic does not fail with CycleDetected
C2_NoCycleNoError == (pc = "done" /\ Acyclic) => ~IsErr("CycleDetected")

(***************************************************************************)
(* The format table, by arithmetic on the marker byte b: the byte under a  *)
(* mask of 0xFF, 0xFE, 0xF0, 0x0F, 0x01 or 0x00.                           *)
(***************************************************************************)
Masked(b, mask) ==
    CASE mask = 255 -> b
      [] mask = 254 -> b - (b % 2)
      [] mask = 240 -> b - (b % 16)
      [] mask = 15  -> b % 16
      [] mask = 1   -> b % 2
      [] mask = 0   -> 0

\* the rows <<kind, tag_mask, tag_bits, value_mask>> of the format table
FormatTable ==
    { <<"Boolean", 254, 8, 1>>, <<"Fill", 255, 15, 0>>, <<"UInt8", 255, 16, 0>>,
      <<"UInt16", 255, 17, 0>>, <<"UInt32", 255, 18, 0>>, <<"SInt64", 255, 19, 0>>,
      <<"Float32", 255, 34, 0>>, <<"Float64", 255, 35, 0>>, <<"Date", 255, 51, 0>>,
      <<"Data", 240, 64, 15>>, <<"AsciiString", 240, 80, 15>>,
      <<"Utf16String", 240, 96, 15>>, <<"Uid", 240, 128, 15>>,
      <<"Array", 240, 160, 15>>, <<"Dictionary", 240, 208, 15>> }

\* the rows whose (tag_mask, tag_bits) pair matches the byte b
KindsOf(b) == { row \in FormatTable : Masked(b, row[2]) = row[3] }

\* C11: for every marker byte, kind_of returns the kind whose pair of the
\* format table matches the byte, with the value bits the byte under that
\* kind's value_mask; it fails with InvalidOrUnsupportedObjectFormat exactly
\* when no pair matches; and no byte matches two kinds
C11_KindOfMarker ==
    (pc = "parsed" /\ ret[1] = "kind_of" /\ input # <<>>) =>
        LET b == input[1]
        IN  /\ Cardinality(KindsOf(b)) <= 1
            /\ KindsOf(b) = {} <=> ret[3] = Err("InvalidOrUnsupportedObjectFormat")
            /\ \A row \in KindsOf(b) :
                 /\ ret[3] = Ok(row[1])
                 /\ ret[2].st = "ok"
                 /\ ret[2].val = <<row[1], Masked(b, row[4])>>
                 /\ ret[2].rest = Tail(input)

\* the byte 0xA5 has been classified as an Array with value bits 5
C11_Witness ==
    /\ pc = "parsed" /\ ret[1] = "kind_of" /\ input = <<165>>
    /\ ret[3] = Ok("Array") /\ ret[2].val = <<"Array", 5>>

(***************************************************************************)
(* The count of an object, by the bytes: where the payload starts (the     *)
(* number of bytes of the marker and of the integer object, 0 when there   *)
(* is no valid integer object) and the count, unless it is huge: beyond    *)
(* 255 and so beyond the length of every input.                            *)
(***************************************************************************)
CountedKinds == {"Data", "AsciiString", "Utf16String", "Array", "Dictionary"}

\* the kind of the marker of the input, of the five kinds with a count
CountedKind(bytes) ==
    CASE bytes[1] \div 16 = 4  -> "Data"
      [] bytes[1] \div 16 = 5  -> "AsciiString"
      [] bytes[1] \div 16 = 6  -> "Utf16String"
      [] bytes[1] \div 16 = 10 -> "Array"
      [] bytes[1] \div 16 = 13 -> "Dictionary"
      [] OTHER -> "none"

\* the width of the integer object at position 2, 0 if there is none
CountWidth(bytes) ==
    IF Len(bytes) < 2 THEN 0
    ELSE LET w == CASE bytes[2] = 16 -> 1 [] bytes[2] = 17 -> 2
                    [] bytes[2] = 18 -> 4 [] bytes[2] = 19 -> 8 [] OTHER -> 0
         IN  IF w # 0 /\ Len(bytes) >= 2 + w THEN w ELSE 0

PayloadStart(bytes) ==
    IF bytes[1] % 16 # 15 THEN 1
    ELSE IF CountWidth(bytes) = 0 THEN 0 ELSE 2 + CountWidth(bytes)

\* the count, for an input with PayloadStart # 0: the unsigned big-endian
\* value of the integer's payload
CountOf(bytes) ==
    IF bytes[1] % 16 # 15 THEN bytes[1] % 16 ELSE bytes[CountWidth(bytes) + 2]

\* a byte of the integer's payload above the lowest is not zero
HugeCount(bytes) ==
    /\ bytes[1] % 16 = 15
    /\ \E k \in 3..(CountWidth(bytes) + 1) : bytes[k] # 0

\* the bytes one element takes
UnitOf(kind, rs) ==
    CASE kind \in {"Data", "AsciiString"} -> 1
      [] kind = "Utf16String" -> 2
      [] kind = "Array" -> rs
      [] kind = "Dictionary" -> 2 * rs

\* the input holds the whole payload
PayloadFits(bytes, rs) ==
    /\ PayloadStart(bytes) # 0
    /\ ~HugeCount(bytes)
    /\ PayloadStart(bytes) + CountOf(bytes) * UnitOf(CountedKind(bytes), rs) <= Len(bytes)

\* the parser of the kind of the input's marker has run
CountedCall ==
    /\ pc = "parsed" /\ input # <<>>
    /\ ret[1] \in CountedKinds /\ ret[1] = CountedKind(input)

\* C12: for Data, AsciiString, Utf16String, Array and Dictionary the count
\* is the value bits when they are below 15 and otherwise the unsigned value
\* of the integer object after the marker, the payload starting right after
\* it; the parse fails when no valid integer object follows (or when the
\* input does not hold the payload the count announces)
C12_CountOfPayload ==
    CountedCall =>
        IF ~PayloadFits(input, ret[2]) THEN ret[3].st = "err"
        ELSE LET first == PayloadStart(input)
                 size == CountOf(input) * UnitOf(ret[1], ret[2])
             IN  /\ ret[3].st = "ok"
                 /\ Len(ret[3].val) = CountOf(input)
                 /\ ret[3].rest = SubSeq(input, first + size + 1, Len(input))
                 /\ ret[1] \in {"Data", "AsciiString"} =>
                      ret[3].val = SubSeq(input, first + 1, first + size)

\* a Data object whose count 2 stands in a SInt64 after the marker has been
\* parsed to its two bytes
C12_Witness ==
    /\ CountedCall /\ ret[1] = "Data"
    /\ Len(input) > 10 /\ input[1] = 79 /\ input[2] = 19 /\ CountOf(input) = 2
    /\ ret[3].st = "ok" /\ ret[3].val = <<1, 2>>

\* the j-th reference (j from 1) of rs bytes after the count of the object,
\* as a word
WireRef(bytes, rs, j) ==
    LET at == PayloadStart(bytes) + (j - 1) * rs
    IN  [n \in 1..8 |-> IF n <= 8 - rs THEN 0 ELSE bytes[at + n - (8 - rs)]]

\* C13: the dictionary parser, on a dictionary of count n, returns exactly
\* the n pairs (r_i, r_(n+i)) of the 2n references that follow the count, in
\* that order: the keys precede the values and are paired by position
C13_KeysThenValues ==
    (CountedCall /\ ret[1] = "Dictionary" /\ ret[3].st = "ok") =>
        LET n == CountOf(input)
        IN  /\ Len(ret[3].val) = n
            /\ \A i \in 1..n :
                 ret[3].val[i] = <<WireRef(input, ret[2], i), WireRef(input, ret[2], n + i)>>
            /\ ret[3].rest = SubSeq(input, PayloadStart(input) + 2 * n * ret[2] + 1, Len(input))

\* a dictionary of three pairs of two-byte references has been parsed
C13_Witness ==
    /\ CountedCall /\ ret[1] = "Dictionary" /\ ret[2] = 2
    /\ input[1] = 211 /\ ret[3].st = "ok"
    /\ ret[3].val[3] = <<U64(5 * 256 + 6), U64(11 * 256 + 12)>>

(***************************************************************************)
(* The traversal of a document, by the bytes (references of one byte).     *)
(***************************************************************************)
\* the references of a collection in the order of the traversal: the
\* elements of an Array; key 1, value 1, key 2, value 2, .. of a Dictionary
ChildrenOf(id) ==
    LET at == Nat24(EntryOf(id)) + 1
        n == input[at] % 16
    IN  IF input[at] \div 16 = 10 THEN [k \in 1..n |-> U64(input[at + k])]
        ELSE IF input[at] \div 16 = 13
        THEN [k \in 1..(2 * n) |->
                IF k % 2 = 1 THEN U64(input[at + (k + 1) \div 2])
                ELSE U64(input[at + n + k \div 2])]
        ELSE <<>>

\* the ids in depth-first, left-to-right order, down to the given depth
RECURSIVE TraversalOf(_, _)
TraversalOf(id, depth) ==
    IF depth = 0 THEN <<>>
    ELSE LET below == [k \in 1..Len(ChildrenOf(id)) |->
                         TraversalOf(ChildrenOf(id)[k], depth - 1)]
         IN  <<id>> \o Concat(below)

\* the objects whose callbacks have fired, in the order of the callbacks
Fired == [i \in 1..Len(callbacks) |-> callbacks[i][2]]

IsPrefix(a, b) == Len(a) <= Len(b) /\ a = SubSeq(b, 1, Len(a))

\* C14: the callbacks fire in depth-first, left-to-right order: at every
\* moment the objects whose callbacks have fired are a prefix of the
\* traversal (elements of an Array in the order of its references, each key
\* of a Dictionary right before its value, pairs in wire order, a nested
\* collection completely before the next sibling), and a successful decode
\* has fired all of it
C14_TraversalOrder ==
    metadata # <<>> =>
        /\ IsPrefix(Fired, TraversalOf(TrailerRoot, MaxObjects + 1))
        /\ IsOk => Fired = TraversalOf(TrailerRoot, MaxObjects + 1)

\* the decode of { "x": [1, 20], "y": 20 } has succeeded after the callbacks
\* of objects 0, 1, 5, 3, 4, 2, 4
C14_Witness ==
    /\ IsOk /\ metadata # <<>>
    /\ ChildrenOf(U64(0)) = <<U64(1), U64(5), U64(2), U64(4)>>
    /\ Fired = <<U64(0), U64(1), U64(5), U64(3), U64(4), U64(2), U64(4)>>

(***************************************************************************)
(* Objects whose payload is cut short or malformed, by the bytes.          *)
(***************************************************************************)
\* the bytes from the object's offset to the end of the input
ObjectData(id) == SubSeq(input, Nat24(EntryOf(id)) + 1, Len(input))

\* the document is a root Array [1] whose element has a marker of one of
\* the kinds with a count
OneCountedElement ==
    /\ metadata # <<>>
    /\ TrailerCount = U64(2) /\ TrailerRoot = U64(0)
    /\ InTable(EntryOf(U64(0))) /\ MarkerOf(U64(0)) = 161
    /\ ChildrenOf(U64(0)) = <<U64(1)>>
    /\ InTable(EntryOf(U64(1)))
    /\ CountedKind(ObjectData(U64(1))) # "none"

\* the payload, when the input holds it
PayloadOf(bytes, rs) ==
    SubSeq(bytes, PayloadStart(bytes) + 1,
           PayloadStart(bytes) + CountOf(bytes) * UnitOf(CountedKind(bytes), rs))

\* a byte above 0x7F in an AsciiString
NotAscii(bytes) ==
    /\ CountedKind(bytes) = "AsciiString"
    /\ \E k \in 1..Len(PayloadOf(bytes, 1)) : PayloadOf(bytes, 1)[k] > 127

\* a surrogate code unit (0xD800..0xDFFF) without its partner in a
\* Utf16String
UnpairedSurrogate(bytes) ==
    /\ CountedKind(bytes) = "Utf16String"
    /\ LET p == PayloadOf(bytes, 1)
           IsHigh(k) == k >= 1 /\ 2 * k <= Len(p) /\ p[2 * k - 1] \in 216..219
           IsLow(k) == k >= 1 /\ 2 * k <= Len(p) /\ p[2 * k - 1] \in 220..223
       IN  \E k \in 1..(Len(p) \div 2) :
             \/ IsHigh(k) /\ ~IsLow(k + 1)
             \/ IsLow(k) /\ ~IsHigh(k - 1)

Malformed(bytes) ==
    \/ ~PayloadFits(bytes, 1)
    \/ NotAscii(bytes)
    \/ UnpairedSurrogate(bytes)

\* the Expected error of a kind
ExpectedOf(kind) ==
    CASE kind = "Data"        -> "ExpectedData"
      [] kind = "AsciiString" -> "ExpectedAsciiString"
      [] kind = "Utf16String" -> "ExpectedUtf16String"
      [] kind = "Array"       -> "ExpectedArray"
      [] kind = "Dictionary"  -> "ExpectedDictionary"

\* C15: when an object classified as kind K by its marker has a payload
\* that is cut short or malformed, the decode fails with the Expected error
\* of kind K; a Utf16String with a missing code unit or an unpaired
\* surrogate fails with ExpectedUtf16String
C15_ExpectedOfSameKind ==
    (pc = "done" /\ OneCountedElement /\ Malformed(ObjectData(U64(1)))) =>
        IsErr(ExpectedOf(CountedKind(ObjectData(U64(1)))))

\* the deserialize_any of an object has returned an error
ErrorRaised == pc = "return" /\ ret[1] = "Err"

\* C16: when decoding an object fails, the whole decode returns that same
\* error: from the moment the error is returned no further callback fires,
\* every enclosing collection returns the same error, and the decode ends
\* with it as its result (no value)
C16_Step ==
    ErrorRaised =>
        /\ callbacks' = callbacks
        /\ \/ pc' = "return" /\ ret' = ret
           \/ pc' = "done" /\ result' = ret

C16_FailFast == [][C16_Step]_vars

\* an error is being returned through two enclosing collections, after
\* callbacks have fired
C16_Witness == ErrorRaised /\ Len(frames) >= 2 /\ Len(callbacks) >= 3

(***************************************************************************)
(* The typed-value tree of a document, read off its bytes.                 *)
(***************************************************************************)
\* the ids in traversal order, one occurrence per reference followed
Traversal == TraversalOf(TrailerRoot, MaxObjects + 1)

\* the Object of the object at id, down to the given depth: UInt8, ASCII
\* string of one character, Array, Dictionary
RECURSIVE TreeOf(_, _)
TreeOf(id, depth) ==
    LET at == Nat24(EntryOf(id)) + 1
        refs == ChildrenOf(id)
    IN  IF depth = 0 THEN <<"Below">>
        ELSE IF input[at] = 16 THEN <<"Integer", U64(input[at + 1])>>
        ELSE IF input[at] = 81 THEN <<"String", <<input[at + 1]>>>>
        ELSE IF input[at] \div 16 = 10
        THEN <<"Array", [k \in 1..Len(refs) |-> TreeOf(refs[k], depth - 1)]>>
        ELSE <<"Dictionary",
               { <<TreeOf(refs[2 * k - 1], depth - 1), TreeOf(refs[2 * k], depth - 1)>> :
                   k \in 1..(Len(refs) \div 2) }>>

\* in the traversal t an object is referenced several times and every such
\* object is a UInt8: no collection is visited twice
SharedUInt8Only(t) ==
    /\ \E i, j \in 1..Len(t) : i < j /\ t[i] = t[j]
    /\ \A i, j \in 1..Len(t) : (i < j /\ t[i] = t[j]) => IsUInt8(t[i])

\* C17: an object that is no collection and is referenced several times is
\* decoded on each visit and never causes CycleDetected: the visit of a
\* UInt8 object never returns CycleDetected, and the decode into Object of a
\* document in which only UInt8 objects are referenced several times
\* succeeds, fires one callback per reference, and yields at every reference
\* the value of the object referenced
C17_Step ==
    \A id \in Resolving :
        (metadata # <<>> /\ KnownId(id) /\ IsUInt8(id))
            => ~(pc = "return" /\ ret = Err("CycleDetected"))'

C17_Done ==
    (pc = "done" /\ materializer = "Object" /\ metadata # <<>>) =>
        \A t \in {Traversal} :
            SharedUInt8Only(t) =>
                /\ result = Ok(TreeOf(TrailerRoot, MaxObjects + 1))
                /\ Fired = t

RootOfUInt8 ==
    /\ KnownId(TrailerRoot) /\ IsArray(TrailerRoot)
    /\ \A k \in 1..Len(ArrayRefs(TrailerRoot)) :
         KnownId(ArrayRefs(TrailerRoot)[k]) /\ IsUInt8(ArrayRefs(TrailerRoot)[k])

\* the payload byte of the UInt8 object the root Array's k-th reference names
RootElement(k) == input[Nat24(EntryOf(ArrayRefs(TrailerRoot)[k])) + 2]

\* C19: a root Array of n UInt8 objects decodes into Vec<u8> as the n
\* payload bytes of the objects its references name, in wire order, and
\* into Object as the Array of the Integers of the same values in the same
\* order
C19_IntegerList ==
    (pc = "done" /\ RootOfUInt8) =>
        /\ materializer = "VecU8" =>
             result = Ok(<<"Vec", [k \in 1..Len(ArrayRefs(TrailerRoot)) |-> RootElement(k)]>>)
        /\ materializer = "Object" =>
             result = Ok(<<"Array", [k \in 1..Len(ArrayRefs(TrailerRoot)) |->
                                       <<"Integer", U64(RootElement(k))>>]>>)

\* the root Array at id 2 with the references 1, 0 has been decoded into
\* Vec<u8> as [2, 1]
C19_Witness ==
    /\ pc = "done" /\ materializer = "VecU8" /\ RootOfUInt8
    /\ TrailerRoot = U64(2) /\ ArrayRefs(U64(2)) = <<U64(1), U64(0)>>
    /\ result = Ok(<<"Vec", <<2, 1>>>>)

\* the object at id is an ASCII string of one character
IsString1(id) == MarkerOf(id) = 81
\* the payload byte of the UInt8 or of the one-character string at id
ByteOf(id) == input[Nat24(EntryOf(id)) + 2]

\* the keys and values of the root Dictionary, in the order of the pairs
RootPairs ==
    LET refs == ChildrenOf(TrailerRoot)
    IN  [k \in 1..(Len(refs) \div 2) |-> <<refs[2 * k - 1], refs[2 * k]>>]

\* the root is a Dictionary whose keys are distinct ASCII strings and whose
\* values are UInt8 objects
StringsToUInt8 ==
    /\ MarkerOf(TrailerRoot) \div 16 = 13
    /\ \A k \in 1..Len(RootPairs) : IsString1(RootPairs[k][1]) /\ IsUInt8(RootPairs[k][2])
    /\ \A j, k \in 1..Len(RootPairs) :
         j # k => ByteOf(RootPairs[j][1]) # ByteOf(RootPairs[k][1])

\* the value paired on the wire with the key of the given character
PairedWith(char) ==
    LET k == CHOOSE j \in 1..Len(RootPairs) : ByteOf(RootPairs[j][1]) = char
    IN  U64(ByteOf(RootPairs[k][2]))

MinimalEmptyArray ==
    <<98, 112, 108, 105, 115, 116, 48, 48, 160, 8>>
      \o <<0, 0, 0, 0, 0, 0, 1, 1>>
      \o <<0, 0, 0, 0, 0, 0, 0, 1>>
      \o <<0, 0, 0, 0, 0, 0, 0, 0>>
      \o <<0, 0, 0, 0, 0, 0, 0, 9>>

\* the 36 bytes given as the input of the scenario: header, A0, 08, and 26
\* bytes of trailer
ScenarioInput ==
    <<98, 112, 108, 105, 115, 116, 48, 48, 160, 8>>
      \o <<0, 0, 0, 0, 0, 0, 0, 0, 1, 1>>
      \o <<0, 0, 0, 0, 0, 0, 0, 1>>
      \o <<0, 0, 0, 0, 0, 0, 0, 9>>

EmptySequence == IF materializer = "VecU8" THEN <<"Vec", <<>>>> ELSE <<"Array", <<>>>>

\* C21: the minimal empty-array document (header, A0 at 8, offset table 08,
\* and the 32-byte trailer declaring entry size 1, reference size 1, 1
\* object, root 0, offset table at 9) passes the length and envelope checks
\* and decodes to an empty sequence, into Vec<u8> and into Object
C21_MinimalEmptyArray ==
    input = MinimalEmptyArray =>
        /\ pc \notin {"parse_metadata", "done"} => metadata # <<>>
        /\ pc = "done" => result = Ok(EmptySequence)

\* the minimal document has been decoded into Vec<u8> after the one callback
\* of its root
C21_Witness ==
    /\ input = MinimalEmptyArray /\ materializer = "VecU8"
    /\ pc = "done" /\ IsOk /\ Len(callbacks) = 1

\* C21 as stated, for the input of the scenario byte for byte: its decode
\* ends with an empty sequence
C21_ScenarioInputDecodes ==
    (input = ScenarioInput /\ pc = "done") => result = Ok(EmptySequence)

\* the element of the root Array [1] is an AsciiString whose payload the
\* input holds
AsciiElement ==
    /\ OneCountedElement
    /\ CountedKind(ObjectData(U64(1))) = "AsciiString"
    /\ PayloadFits(ObjectData(U64(1)), 1)

\* C22: an ASCII string object whose payload holds a byte above 0x7F is
\* rejected with an error (ExpectedAsciiString); every string materialized
\* from an ASCII string object is the count bytes of its payload, all of
\* them <= 0x7F
C22_AsciiOnly ==
    (pc = "done" /\ AsciiElement) =>
        LET str == ObjectData(U64(1))
        IN  /\ NotAscii(str) => IsErr("ExpectedAsciiString")
            /\ ~NotAscii(str) => result = Ok(<<"Array", << <<"String", PayloadOf(str, 1)>> >>>>)
            /\ IsOk => /\ Len(result[2][2][1][2]) = CountOf(str)
                       /\ \A k \in 1..CountOf(str) : result[2][2][1][2][k] <= 127

\* the string 61 80, whose second byte is above 0x7F, has been rejected
C22_Witness ==
    /\ pc = "done" /\ AsciiElement
    /\ ObjectData(U64(1))[1] = 82 /\ ObjectData(U64(1))[3] = 128
    /\ IsErr("ExpectedAsciiString")

\* the document is a root Array [1] of two objects, both inside the table
OneElement ==
    /\ metadata # <<>>
    /\ TrailerCount = U64(2) /\ TrailerRoot = U64(0)
    /\ InTable(EntryOf(U64(0))) /\ MarkerOf(U64(0)) = 161
    /\ ChildrenOf(U64(0)) = <<U64(1)>>
    /\ InTable(EntryOf(U64(1)))

\* the n bytes after the marker of the object at id
BytesAfterMarker(id, n) == SubSeq(ObjectData(id), 2, n + 1)

\* C23: decoded into Object, a Date object in the root Array yields
\* Object::Date of its 8 payload bytes, and a Uid object yields Object::Uid
\* of the value bits + 1 bytes after its marker; neither yields a Dictionary
\* or an error
C23_DateAndUid ==
    (pc = "done" /\ OneElement /\ materializer = "Object") =>
        /\ MarkerOf(U64(1)) = 51 =>
             result = Ok(<<"Array", << <<"Date", BytesAfterMarker(U64(1), 8)>> >>>>)
        /\ MarkerOf(U64(1)) \in 128..143 =>
             result = Ok(<<"Array", << <<"Uid",
                           BytesAfterMarker(U64(1), MarkerOf(U64(1)) - 127)>> >>>>)

\* the root is inside the table and its marker is a Dictionary's
RootIsDictionary ==
    /\ metadata # <<>>
    /\ KnownId(TrailerRoot) /\ InTable(EntryOf(TrailerRoot))
    /\ MarkerOf(TrailerRoot) \div 16 = 13

\* C24: decoded into Object, a wire object of kind Dictionary (here the
\* root) yields Object::Dictionary or an error, and neither Object::Date nor
\* Object::Uid, whatever strings its keys are and however many pairs it has
C24_DictionaryStaysDictionary ==
    (pc = "done" /\ materializer = "Object" /\ RootIsDictionary) =>
        \/ result[1] = "Err"
        \/ result[1] = "Ok" /\ result[2][1] = "Dictionary"

(***************************************************************************)
(* The collections entered and not yet exited.                             *)
(***************************************************************************)
\* the ids of the collections whose visitor is running: the current
\* depth-first path
PathIds == { frames[i].object : i \in 1..Len(frames) }

\* C25: at every point of a traversal collection_stack is the set of the ids
\* of the collections entered and not yet exited (before each round of a
\* visitor, and whenever a deserialize_any has returned)
C25_StackIsPath == pc \in {"visit", "return"} => collection_stack = PathIds

\* the object at id is an Array or a Dictionary inside the table
IsCollection(id) ==
    /\ KnownId(id) /\ InTable(EntryOf(id))
    /\ MarkerOf(id) \div 16 \in {10, 13}

\* the collection the next step reaches, if any
Reached == { id \in Resolving : metadata # <<>> /\ IsCollection(id) }

\* the ids increase along the current path
Increasing ==
    \A i, j \in 1..Len(frames) :
        i < j => DigitsLt(frames[i].object, frames[j].object)

\* collection_stack is the current path, its last id the largest
TrueStack == collection_stack = PathIds /\ Increasing

CycleRaised == pc = "return" /\ ret = Err("CycleDetected")

\* C26: as long as every collection entered has a larger id than every
\* collection entered and not yet exited, the decode behaves as with a true
\* stack: a step that enters no collection of a smaller id keeps
\* collection_stack equal to the current path (exit_collection removes the
\* id of the collection being exited), and it raises CycleDetected if and
\* only if the collection it reaches is on the current path
C26_Step ==
    (/\ TrueStack
     /\ \A id \in Reached : id \in PathIds \/ \A x \in PathIds : DigitsLt(x, id))
    => /\ TrueStack'
       /\ ~CycleRaised => (CycleRaised' <=> \E id \in Reached : id \in PathIds)

C26_TrueStackWhenIncreasing == [][C26_Step]_vars

\* the Array at id 1, entered from the root at id 0, has been exited and
\* collection_stack holds the root's id alone
C26_Witness ==
    /\ pc = "return" /\ ret[1] = "Ok"
    /\ Len(frames) = 1 /\ frames[1].object = U64(0)
    /\ Len(callbacks) >= 2 /\ callbacks[2] = <<"visit_seq", U64(1)>>
    /\ collection_stack = {U64(0)}

\* C27: the calls of enter_collection and exit_collection are balanced: the
\* size of collection_stack is the number of collections entered and not
\* yet exited, the assertion of exit_collection never fails, and
\* collection_stack is empty when the decode of the root has returned, with
\* a value or with an error
C27_Balanced ==
    /\ pc \in {"visit", "return"} => Cardinality(collection_stack) = Len(frames)
    /\ pc = "done" => /\ collection_stack = {}
                      /\ result[1] \in {"Ok", "Err"}

\* a decode has ended with CycleDetected, raised inside a nested collection,
\* and collection_stack is empty
C27_Witness ==
    /\ pc = "done" /\ IsErr("CycleDetected")
    /\ Len(callbacks) >= 2 /\ collection_stack = {}

\* C28: a document whose trailer declares an offset_table_entry_size or an
\* object_reference_size of 0 or above 8 is rejected with an error value
\* (and its decode meets no failing assertion)
C28_SizesRejected ==
    (/\ pc = "done" /\ DocLen >= 42
     /\ TrailerEntrySize \notin 1..8 \/ TrailerReferenceSize \notin 1..8)
    => result[1] = "Err"

\* the element of the root Array [1] is a Data or an AsciiString that starts
\* inside the object table and whose payload, of the count it declares, ends
\* after offset_table_offset
OverrunElement ==
    /\ OneElement
    /\ CountedKind(ObjectData(U64(1))) \in {"Data", "AsciiString"}
    /\ PayloadStart(ObjectData(U64(1))) # 0
    /\ ~HugeCount(ObjectData(U64(1)))
    /\ Nat24(EntryOf(U64(1))) + PayloadStart(ObjectData(U64(1)))
         + CountOf(ObjectData(U64(1))) > Nat24(TrailerOffset)

\* C29: an object that starts inside the object table and whose payload
\* extends past offset_table_offset is decoded without error when the
\* payload ends within the input, the bytes of the offset table and of the
\* trailer being its payload, and fails only when the payload runs past the
\* end of the input
C29_OverrunIsRead ==
    (pc = "done" /\ materializer = "Object" /\ OverrunElement) =>
        LET bytes == ObjectData(U64(1))
            kind == CountedKind(bytes)
        IN  IF PayloadFits(bytes, 1)
            THEN result = Ok(<<"Array", << <<IF kind = "Data" THEN "Data" ELSE "String",
                                            PayloadOf(bytes, 1)>> >>>>)
            ELSE IsErr(ExpectedOf(kind))

\* a Data of 34 bytes that starts at the end of the object table has been
\* decoded: its payload is the offset table and the whole trailer
C29_Witness ==
    /\ pc = "done" /\ OverrunElement /\ IsOk
    /\ ObjectData(U64(1))[1] = 79 /\ CountOf(ObjectData(U64(1))) = 34
    /\ result[2][2][1][2] = SubSeq(input, Len(input) - 33, Len(input))

(***************************************************************************)
(* Duplicate keys.                                                         *)
(***************************************************************************)
\* the object at id decodes into an Object: a UInt8, a Float32, a Float64, an
\* ASCII string whose payload is in the input, or an Array of such objects
RECURSIVE Decodes(_, _)
Decodes(id, depth) ==
    /\ depth > 0
    /\ KnownId(id) /\ InTable(EntryOf(id))
    /\ \/ MarkerOf(id) \in {16, 34, 35}
       \/ /\ MarkerOf(id) \div 16 = 5
          /\ PayloadStart(ObjectData(id)) # 0
          /\ ~HugeCount(ObjectData(id))
          /\ PayloadFits(ObjectData(id), 1)
          /\ ~NotAscii(ObjectData(id))
       \/ /\ MarkerOf(id) \div 16 = 10
          /\ MarkerOf(id) % 16 < 15
          /\ \A k \in 1..Len(ChildrenOf(id)) : Decodes(ChildrenOf(id)[k], depth - 1)

\* the Object a key object decodes into
KeyValue(id) ==
    IF MarkerOf(id) \div 16 = 5
    THEN <<"String", PayloadOf(ObjectData(id), 1)>>
    ELSE TreeOf(id, MaxObjects + 1)

\* the root is a Dictionary of at least one pair whose keys and values decode
DictionaryOfDecodablePairs ==
    /\ RootIsDictionary
    /\ MarkerOf(TrailerRoot) % 16 \in 1..14
    /\ \A k \in 1..Len(RootPairs) :
         Decodes(RootPairs[k][1], MaxObjects) /\ Decodes(RootPairs[k][2], MaxObjects)

\* the pairs whose key is equal to the key of an earlier pair
RepeatedKeys ==
    { k \in 1..Len(RootPairs) :
        \E j \in 1..(k - 1) : KeyValue(RootPairs[j][1]) = KeyValue(RootPairs[k][1]) }

\* the first of a set of pairs
FirstOf(pairs) == CHOOSE k \in pairs : \A j \in pairs : k <= j

\* C30: decoded into Object, a Dictionary in which two keys decode to equal
\* values, be they two key objects of equal content or the same object
\* referenced twice, fails with the Message that names the repeated key, and
\* a Dictionary whose keys are pairwise distinct yields a map of exactly one
\* entry per pair of the wire
C30_DuplicateKeys ==
    (pc = "done" /\ materializer = "Object" /\ DictionaryOfDecodablePairs) =>
        IF RepeatedKeys # {}
        THEN result = Err("Message: duplicate key: "
                            \o ToString(KeyValue(RootPairs[FirstOf(RepeatedKeys)][1])))
        ELSE /\ result[1] = "Ok" /\ result[2][1] = "Dictionary"
             /\ Cardinality(result[2][2]) = Len(RootPairs)
             /\ \A k \in 1..Len(RootPairs) :
                  \E e \in result[2][2] :
                    /\ e[1] = KeyValue(RootPairs[k][1])
                    /\ MarkerOf(RootPairs[k][2]) \in {16, 81} =>
                         e[2] = TreeOf(RootPairs[k][2], MaxObjects + 1)

====
